---- MODULE Spec2Model ----
(***************************************************************************)
(* Model of the graph data builder of the relationship research graph      *)
(* (lwc/rraGraph/rraGraph.js, class GraphDataBuilder).                     *)
(*                                                                         *)
(* JavaScript values are records [t, s]: t is the type tag and s the       *)
(* characters of a string (empty for every other type).  Strings are       *)
(* sequences of one-character strings so that trim(), the default sort     *)
(* order, toLowerCase() and the property-key rules of plain objects are    *)
(* computed rather than assumed.                                           *)
(***************************************************************************)
EXTENDS Integers, Sequences, FiniteSets, TLC

(***************************************************************************)
(* Strings                                                                 *)
(***************************************************************************)

\* The characters the inputs use, in increasing UTF-16 code unit order.
Alphabet ==
    << "\t", " ", "0", "1", "2", "3", "4", "5", "6", "7", "8", "9", ":",
       "A", "B", "C", "D", "E", "F", "G", "H", "I", "J", "K", "L", "M",
       "N", "O", "P", "Q", "R", "S", "T", "U", "V", "W", "X", "Y", "Z", "_",
       "a", "b", "c", "d", "e", "f", "g", "h", "i", "j", "k", "l", "m",
       "n", "o", "p", "q", "r", "s", "t", "u", "v", "w", "x", "y", "z" >>

CharCodes ==
    [ c \in { Alphabet[i] : i \in 1..Len(Alphabet) } |->
        CHOOSE i \in 1..Len(Alphabet) : Alphabet[i] = c ]

CharCode(c) == CharCodes[c]

WhiteSpace == {"\t", " "}

Digits == {"0", "1", "2", "3", "4", "5", "6", "7", "8", "9"}

UpperCase == { Alphabet[i] : i \in CharCode("A")..CharCode("Z") }

\* String.prototype.toLowerCase on one character.
LowerChar(c) ==
    IF c \in UpperCase
    THEN Alphabet[CharCode(c) - CharCode("A") + CharCode("a")]
    ELSE c

ToLowerCase(s) == [i \in 1..Len(s) |-> LowerChar(s[i])]

RECURSIVE TrimStart(_)
TrimStart(s) ==
    IF s # <<>> /\ Head(s) \in WhiteSpace THEN TrimStart(Tail(s)) ELSE s

RECURSIVE TrimEnd(_)
TrimEnd(s) ==
    IF s # <<>> /\ s[Len(s)] \in WhiteSpace
    THEN TrimEnd(SubSeq(s, 1, Len(s) - 1))
    ELSE s

\* String.prototype.trim
Trim(s) == TrimEnd(TrimStart(s))

\* s < t in the order of the default Array.prototype.sort comparator
\* (code unit by code unit, a proper prefix first).
RECURSIVE StrLess(_, _)
StrLess(s, t) ==
    IF t = <<>> THEN FALSE
    ELSE IF s = <<>> THEN TRUE
    ELSE IF Head(s) # Head(t) THEN CharCode(Head(s)) < CharCode(Head(t))
    ELSE StrLess(Tail(s), Tail(t))

\* The largest array index, 2^32 - 2, in decimal.
MaxArrayIndex == << "4", "2", "9", "4", "9", "6", "7", "2", "9", "4" >>

\* A property key that is a canonical array index: plain objects list such
\* keys first, in increasing numeric order, before every other key.
IsArrayIndex(s) ==
    /\ s # <<>>
    /\ \A i \in 1..Len(s) : s[i] \in Digits
    /\ (Len(s) > 1 => s[1] # "0")
    /\ \/ Len(s) < Len(MaxArrayIndex)
       \/ Len(s) = Len(MaxArrayIndex) /\ ~StrLess(MaxArrayIndex, s)

\* a < b for two array-index keys, as numbers.
IndexLess(a, b) ==
    \/ Len(a) < Len(b)
    \/ Len(a) = Len(b) /\ StrLess(a, b)

(***************************************************************************)
(* JavaScript values                                                       *)
(***************************************************************************)

Str(s) == [t |-> "string", s |-> s]
Undefined == [t |-> "undefined", s |-> <<>>]
Null == [t |-> "null", s |-> <<>>]
True == [t |-> "true", s |-> <<>>]
False == [t |-> "false", s |-> <<>>]
Number(s) == [t |-> "number", s |-> s]

\* ToBoolean, as used by ||, ! and if.
Truthy(v) ==
    CASE v.t = "string" -> v.s # <<>>
      [] v.t = "number" -> v.s # <<"0">>
      [] v.t = "true" -> TRUE
      [] v.t \in {"object", "array", "function"} -> TRUE
      [] OTHER -> FALSE

\* a || b
Or(a, b) == IF Truthy(a) THEN a ELSE b

\* function isBlank(v)
isBlank(v) ==
    IF v.t = "string" THEN Len(Trim(v.s)) < 1 ELSE TRUE

\* function coalesce(...v), on the sequence of its arguments
RECURSIVE coalesce(_)
coalesce(v) ==
    IF v = <<>> THEN Undefined
    ELSE IF ~isBlank(Head(v)) THEN Str(Trim(Head(v).s))
    ELSE coalesce(Tail(v))

\* typeof v === "object" for a value that is not null
IsObject(v) == v.t \in {"object", "array"}

\* o.f for a property name written in the code: undefined when absent
Get(o, f) == IF f \in DOMAIN o THEN o[f] ELSE Undefined

(***************************************************************************)
(* Plain objects used as maps (const nodes = {}; const links = {}).        *)
(* own lists the own properties in creation order; proto is the object's   *)
(* prototype.  Keys are computed strings, so the inherited properties and  *)
(* the __proto__ accessor of Object.prototype are part of the map.         *)
(***************************************************************************)

Function == [t |-> "function", s |-> <<>>]

ObjectPrototype == [t |-> "object", builtin |-> "Object.prototype"]

ProtoKey == << "_", "_", "p", "r", "o", "t", "o", "_", "_" >>

\* The data and method properties every plain object inherits.
ObjectPrototypeKeys ==
    { << "c", "o", "n", "s", "t", "r", "u", "c", "t", "o", "r" >>,
      << "t", "o", "S", "t", "r", "i", "n", "g" >>,
      << "v", "a", "l", "u", "e", "O", "f" >>,
      << "h", "a", "s", "O", "w", "n", "P", "r", "o", "p", "e", "r", "t", "y" >>,
      << "i", "s", "P", "r", "o", "t", "o", "t", "y", "p", "e", "O", "f" >>,
      << "t", "o", "L", "o", "c", "a", "l", "e", "S", "t", "r", "i", "n", "g" >>,
      << "p", "r", "o", "p", "e", "r", "t", "y", "I", "s",
         "E", "n", "u", "m", "e", "r", "a", "b", "l", "e" >>,
      << "_", "_", "d", "e", "f", "i", "n", "e", "G", "e", "t", "t", "e", "r", "_", "_" >>,
      << "_", "_", "d", "e", "f", "i", "n", "e", "S", "e", "t", "t", "e", "r", "_", "_" >>,
      << "_", "_", "l", "o", "o", "k", "u", "p", "G", "e", "t", "t", "e", "r", "_", "_" >>,
      << "_", "_", "l", "o", "o", "k", "u", "p", "S", "e", "t", "t", "e", "r", "_", "_" >> }

\* The characters of the property names of a node literal.
FieldChars ==
    [ id |-> << "i", "d" >>,
      label |-> << "l", "a", "b", "e", "l" >>,
      isFocus |-> << "i", "s", "F", "o", "c", "u", "s" >>,
      isCrmLink |-> << "i", "s", "C", "r", "m", "L", "i", "n", "k" >>,
      entityType |-> << "e", "n", "t", "i", "t", "y", "T", "y", "p", "e" >>,
      recordId |-> << "r", "e", "c", "o", "r", "d", "I", "d" >>,
      recordType |-> << "r", "e", "c", "o", "r", "d", "T", "y", "p", "e" >> ]

EmptyObject == [own |-> <<>>, proto |-> ObjectPrototype]

OwnIndex(o, k) ==
    LET found == { i \in 1..Len(o.own) : o.own[i].key = k }
    IN  IF found = {} THEN 0 ELSE CHOOSE i \in found : TRUE

\* p[k] for an object p that is a prototype of a map
InheritedGet(p, k) ==
    IF "builtin" \notin DOMAIN p
       /\ \E f \in DOMAIN FieldChars : FieldChars[f] = k /\ f \in DOMAIN p
    THEN p[CHOOSE f \in DOMAIN FieldChars : FieldChars[f] = k /\ f \in DOMAIN p]
    ELSE IF k \in ObjectPrototypeKeys THEN Function
    ELSE Undefined

\* o[k]
ObjGet(o, k) ==
    LET i == OwnIndex(o, k)
    IN  IF k = ProtoKey THEN o.proto
        ELSE IF i # 0 THEN o.own[i].value
        ELSE InheritedGet(o.proto, k)

\* o[k] = v
ObjSet(o, k, v) ==
    LET i == OwnIndex(o, k)
    IN  IF k = ProtoKey
        THEN IF IsObject(v) \/ v.t = "null" THEN [o EXCEPT !.proto = v] ELSE o
        ELSE IF i # 0
        THEN [o EXCEPT !.own[i].value = v]
        ELSE [o EXCEPT !.own = Append(@, [key |-> k, value |-> v])]

\* The own entries whose keys are (are not) array indices, in creation order.
RECURSIVE SelectEntries(_, _)
SelectEntries(own, index) ==
    IF own = <<>> THEN <<>>
    ELSE IF IsArrayIndex(Head(own).key) = index
    THEN <<Head(own)>> \o SelectEntries(Tail(own), index)
    ELSE SelectEntries(Tail(own), index)

\* Insert entry e into a sequence sorted by increasing array index.
RECURSIVE InsertByIndex(_, _)
InsertByIndex(e, sorted) ==
    IF sorted = <<>> THEN <<e>>
    ELSE IF IndexLess(e.key, Head(sorted).key) THEN <<e>> \o sorted
    ELSE <<Head(sorted)>> \o InsertByIndex(e, Tail(sorted))

RECURSIVE SortByIndex(_)
SortByIndex(entries) ==
    IF entries = <<>> THEN <<>>
    ELSE InsertByIndex(Head(entries), SortByIndex(Tail(entries)))

\* The own property order of a plain object: array indices increasing, then
\* the other string keys in creation order.
OwnPropertyOrder(o) ==
    SortByIndex(SelectEntries(o.own, TRUE)) \o SelectEntries(o.own, FALSE)

\* Object.values(o)
ObjectValues(o) ==
    LET order == OwnPropertyOrder(o)
    IN  [i \in 1..Len(order) |-> order[i].value]

(***************************************************************************)
(* class GraphDataBuilder                                                  *)
(***************************************************************************)

\* static _isValidAnchor(a)
isValidAnchor(a) ==
    IF ~Truthy(a) \/ ~IsObject(a) THEN FALSE
    ELSE ~isBlank(Get(a, "entityName"))

\* static _isValidRelated(r)
isValidRelated(r) ==
    IF ~Truthy(r) \/ ~IsObject(r) THEN FALSE
    ELSE IF isBlank(Get(r, "entityName")) THEN FALSE
    ELSE IF isBlank(Get(r, "predicate")) THEN FALSE
    ELSE TRUE

\* isValidEnvelope without the schemaVersion check.
isValidEnvelope_AnySchemaVersion(env) ==
    IF ~Truthy(env) \/ ~IsObject(env) THEN FALSE
    ELSE IF ~isValidAnchor(Get(env, "anchorEntity")) THEN FALSE
    ELSE IF Get(env, "relatedEntities").t # "array" THEN FALSE
    ELSE \E i \in 1..Len(Get(env, "relatedEntities").items) :
             isValidRelated(Get(env, "relatedEntities").items[i])

\* static isValidEnvelope(env)
isValidEnvelope(env) ==
    IF ~Truthy(env) \/ ~IsObject(env) THEN FALSE
    ELSE IF Get(env, "schemaVersion") # Str(<<"2">>) THEN FALSE
    ELSE IF ~isValidAnchor(Get(env, "anchorEntity")) THEN FALSE
    ELSE IF Get(env, "relatedEntities").t # "array" THEN FALSE
    ELSE LET items == Get(env, "relatedEntities").items
             hasValidRelated ==
                 \E i \in 1..Len(items) : isValidRelated(items[i])
         IN  IF ~hasValidRelated THEN FALSE ELSE TRUE

\* static keyForPair(a, b): [a, b].sort().join("::")
keyForPair(a, b) ==
    LET sorted == IF StrLess(b, a) THEN <<b, a>> ELSE <<a, b>>
    IN  sorted[1] \o <<":", ":">> \o sorted[2]

\* constructor(envelope): the value of this.envelope
GraphDataBuilder(env) == IF isValidEnvelope(env) THEN env ELSE Null

maxNodes == 8

\* String literals of build.
Organization == << "o", "r", "g", "a", "n", "i", "z", "a", "t", "i", "o", "n" >>
Account == << "a", "c", "c", "o", "u", "n", "t" >>
Crm == << "c", "r", "m" >>

\* The anchor node with the envelope's values taking priority.
AnchorNode_EnvelopeFirst(anchorEntity, overrides) ==
    LET anchorName == Trim(Get(anchorEntity, "entityName").s)
    IN  [ t |-> "object",
          id |-> Str(anchorName),
          label |-> coalesce(<<Get(anchorEntity, "canonicalName"), Str(anchorName)>>),
          isFocus |-> True,
          isCrmLink |-> True,
          entityType |->
              Str(ToLowerCase(coalesce(<<Get(anchorEntity, "entityType"),
                                         Str(Organization)>>).s)),
          recordId |-> coalesce(<<Get(anchorEntity, "recordId"),
                                  Get(overrides, "recordId")>>),
          recordType |-> coalesce(<<Get(anchorEntity, "recordType"),
                                    Get(overrides, "recordType"),
                                    Str(Account)>>) ]

\* The focus (anchor) node that build adds first.
AnchorNode(anchorEntity, overrides) ==
    LET anchorName == Trim(Get(anchorEntity, "entityName").s)
    IN  [ t |-> "object",
          id |-> Str(anchorName),
          label |-> coalesce(<<Get(anchorEntity, "canonicalName"), Str(anchorName)>>),
          isFocus |-> True,
          isCrmLink |-> True,
          entityType |->
              Str(ToLowerCase(coalesce(<<Get(anchorEntity, "entityType"),
                                         Str(Organization)>>).s)),
          recordId |-> coalesce(<<Get(overrides, "recordId"),
                                  Get(anchorEntity, "recordId")>>),
          recordType |-> coalesce(<<Get(overrides, "recordType"),
                                    Get(anchorEntity, "recordType"),
                                    Str(Account)>>) ]

\* The node of a related entity with its label as id.
RelatedNode_IdIsLabel(rel, otherName) ==
    [ t |-> "object",
      id |-> coalesce(<<Get(rel, "canonicalName"), Str(otherName)>>),
      label |-> coalesce(<<Get(rel, "canonicalName"), Str(otherName)>>),
      isFocus |-> False,
      entityType |-> coalesce(<<Get(rel, "entityType"), Str(Organization)>>),
      isCrmLink |-> IF Get(rel, "source") = Str(Crm)
                    THEN True
                    ELSE Get(rel, "isCrmConfirmed"),
      recordId |-> Or(Get(rel, "recordId"), Undefined),
      recordType |-> Or(Get(rel, "recordType"), Undefined),
      isCrmConfirmed |-> Or(Get(rel, "isCrmConfirmed"), False),
      source |-> Or(Get(rel, "source"), Undefined),
      uuid |-> Or(Get(rel, "uuid"), Undefined),
      context |-> Or(Get(rel, "context"), Undefined),
      citation |-> Or(Get(rel, "citation"), Undefined),
      citationURL |-> Or(Get(rel, "citationURL"), Undefined),
      depth |-> Number(<<"1">>) ]

\* The node build creates for a related entity.
RelatedNode(rel, otherName) ==
    [ t |-> "object",
      id |-> Str(otherName),
      label |-> coalesce(<<Get(rel, "canonicalName"), Str(otherName)>>),
      isFocus |-> False,
      entityType |-> coalesce(<<Get(rel, "entityType"), Str(Organization)>>),
      isCrmLink |-> IF Get(rel, "source") = Str(Crm)
                    THEN True
                    ELSE Get(rel, "isCrmConfirmed"),
      recordId |-> Or(Get(rel, "recordId"), Undefined),
      recordType |-> Or(Get(rel, "recordType"), Undefined),
      isCrmConfirmed |-> Or(Get(rel, "isCrmConfirmed"), False),
      source |-> Or(Get(rel, "source"), Undefined),
      uuid |-> Or(Get(rel, "uuid"), Undefined),
      context |-> Or(Get(rel, "context"), Undefined),
      citation |-> Or(Get(rel, "citation"), Undefined),
      citationURL |-> Or(Get(rel, "citationURL"), Undefined),
      depth |-> Number(<<"1">>) ]

\* The locals of build when the loop over relatedEntities starts.
LoopStart(anchorEntity, overrides) ==
    LET anchorName == Trim(Get(anchorEntity, "entityName").s)
    IN  [ nodes |-> ObjSet(EmptyObject, anchorName,
                           AnchorNode(anchorEntity, overrides)),
          links |-> EmptyObject,
          nodeCount |-> 0,
          broke |-> FALSE ]

\* The cap checked one entry too late.
atCap_OffByOne(nodeCount) == nodeCount > maxNodes

\* if (nodeCount >= maxNodes) break;
atCap(nodeCount) == nodeCount >= maxNodes

\* if (otherName === anchorName) continue;
isSelfReference(otherName, anchorName) == otherName = anchorName

\* No check for a node of the same name.
isDuplicate_Never(nodes, otherName) == FALSE

\* if (nodes[otherName]) continue;
isDuplicate(nodes, otherName) == Truthy(ObjGet(nodes, otherName))

\* One iteration of the loop of build on the entry rel; st holds the locals.
LoopBody(st, rel, anchorName) ==
    IF st.broke THEN st
    ELSE IF ~isValidRelated(rel) THEN st
    ELSE IF atCap(st.nodeCount) THEN [st EXCEPT !.broke = TRUE]
    ELSE LET otherName == Trim(Get(rel, "entityName").s)
             node == RelatedNode(rel, otherName)
             pairKey == keyForPair(anchorName, otherName)
             withNode == ObjSet(st.nodes, otherName, node)
         IN  IF otherName = <<>> THEN st
             ELSE IF isSelfReference(otherName, anchorName) THEN st
             ELSE IF isDuplicate(st.nodes, otherName) THEN st
             ELSE IF Truthy(ObjGet(st.links, pairKey))
                  THEN [st EXCEPT !.nodes = withNode]
             ELSE [ st EXCEPT
                      !.nodes = withNode,
                      !.links = ObjSet(@, pairKey,
                                       [ t |-> "object",
                                         source |-> Str(anchorName),
                                         target |-> Str(otherName),
                                         isCrmLink |-> node.isCrmLink ]),
                      !.nodeCount = @ + 1 ]

\* The locals of build after the first k entries of relatedEntities.
RECURSIVE LoopAfter(_, _, _)
LoopAfter(env, overrides, k) ==
    IF k = 0 THEN LoopStart(env.anchorEntity, overrides)
    ELSE LoopBody(LoopAfter(env, overrides, k - 1),
                  env.relatedEntities.items[k],
                  Trim(env.anchorEntity.entityName.s))

\* build({ recordId, recordType } = {}) on a builder whose this.envelope is env
build(env, overrides) ==
    IF ~Truthy(env)
    THEN [nodes |-> <<>>, links |-> <<>>]
    ELSE LET st == LoopAfter(env, overrides, Len(env.relatedEntities.items))
         IN  [ nodes |-> ObjectValues(st.nodes),
               links |-> ObjectValues(st.links) ]

(***************************************************************************)
(* Inputs: the envelopes and override contexts the callers pass            *)
(***************************************************************************)

MaxFresh == 9
MaxSpecial == 1
MaxBuilds == 2

Web == << "w", "e", "b" >>
Predicate == << "o", "w", "n", "s" >>

\* The k-th ordinary entity name: "a", "b", ...
FreshName(k) == << Alphabet[CharCode("a") + k - 1] >>

\* The k-th ordinary related entity; odd ones come from the CRM.
FreshEntity(k) ==
    [ t |-> "object",
      entityName |-> Str(FreshName(k)),
      predicate |-> Str(Predicate),
      source |-> IF k % 2 = 1 THEN Str(Crm) ELSE Str(Web),
      uuid |-> Str(<<"u">> \o FreshName(k)),
      context |-> Str(<<"c">> \o FreshName(k)) ]

AcmeAnchor ==
    [ t |-> "object",
      entityName |-> Str(<< " ", "A", "c", "m", "e", "\t" >>),
      canonicalName |-> Str(<< "A", "c", "m", "e", " ", "C", "o" >>),
      entityType |-> Str(<< "O", "r", "g" >>),
      recordId |-> Str(<< "0", "0", "1", "A" >>),
      recordType |-> Str(<< "L", "e", "a", "d", " " >>) ]

\* An anchor whose name is the accessor property __proto__ of plain objects.
ProtoAnchor ==
    [ t |-> "object", entityName |-> Str(ProtoKey),
      recordType |-> Str(<< "L", "e", "a", "d" >>) ]

\* An anchor and two entries whose names contain the separator of pair keys:
\* keyForPair gives both entries the key "p::q::p::q::p".
PairAnchor ==
    [ t |-> "object",
      entityName |-> Str(<< "p", ":", ":", "q", ":", ":", "p" >>) ]

PairEntries ==
    << [ t |-> "object", entityName |-> Str(<< "p", ":", ":", "q" >>),
         predicate |-> Str(Predicate), source |-> Str(Crm) ],
       [ t |-> "object", entityName |-> Str(<< "q", ":", ":", "p" >>),
         predicate |-> Str(Predicate), source |-> Str(Web) ] >>

\* Anchors that are not valid: a blank name, a name that is no string, no
\* anchor at all.
OtherAnchors ==
    { [t |-> "object", entityName |-> Str(<< " ", "\t" >>)],
      [t |-> "object", entityName |-> Number(<< "7" >>)],
      Null }

\* Entries that are not valid: no object, a blank name, a blank predicate.
InvalidEntries ==
    << Null,
       [t |-> "object", entityName |-> Str(<< "\t", " " >>), predicate |-> Str(Predicate)],
       [t |-> "object", entityName |-> Str(<< "z" >>), predicate |-> Str(<< " " >>)] >>

\* A valid entry that names the anchor itself.
SelfEntry(anchorName) ==
    [ t |-> "object", entityName |-> Str(<< " " >> \o anchorName),
      predicate |-> Str(Predicate), source |-> Str(Web) ]

\* Three valid entries for the name "j", each with attributes of its own.
RepeatedEntries ==
    << [ t |-> "object", entityName |-> Str(<< " ", "j", "\t" >>),
         predicate |-> Str(Predicate),
         canonicalName |-> Str(<< "J", "a", "y" >>),
         source |-> Str(Web),
         isCrmConfirmed |-> True,
         recordId |-> Str(<< "0", "0", "3", "B" >>),
         recordType |-> Str(<< "C", "o", "n", "t", "a", "c", "t" >>),
         uuid |-> Str(<< "u", "2" >>),
         context |-> Str(<< "c", "2" >>),
         citation |-> Str(<< "s", "2" >>) ],
       [ t |-> "object", entityName |-> Str(<< "j", " " >>),
         predicate |-> Str(Predicate),
         source |-> Str(Crm),
         uuid |-> Str(<< "u", "3" >>) ],
       [ t |-> "object", entityName |-> Str(<< "j" >>),
         predicate |-> Str(Predicate),
         canonicalName |-> Str(<< "J", "2" >>),
         source |-> Str(Web),
         uuid |-> Str(<< "u", "4" >>) ] >>

\* A valid entry whose name is an array index; its canonical name is "a".
IndexEntry ==
    [ t |-> "object", entityName |-> Str(<< "7" >>), predicate |-> Str(Predicate),
      canonicalName |-> Str(<< "a" >>),
      source |-> Str(Web), recordId |-> Str(<< "0", "0", "7" >>) ]

\* A valid entry whose name is a property every plain object inherits.
InheritedEntry ==
    [ t |-> "object",
      entityName |-> Str(<< "c", "o", "n", "s", "t", "r", "u", "c", "t", "o", "r" >>),
      predicate |-> Str(Predicate), source |-> Str(Crm) ]

\* The runs of entries other than the ordinary ones that a caller's
\* relatedEntities may contain, for the anchor named anchorName.
SpecialRuns(anchorName) ==
    { InvalidEntries, << SelfEntry(anchorName) >>, RepeatedEntries,
      << IndexEntry, InheritedEntry >> }

\* Values of schemaVersion other than "2".
OtherSchemaVersions == { Str(<< "1" >>), Number(<< "2" >>) }

\* Values of relatedEntities that are no array.
NonArrays == { Undefined, Null }

\* Envelopes that are no object.
NonObjects == { Null, Str(<< "2" >>) }

\* build's default argument: no recordId and no recordType.
NoOverrides == [t |-> "object"]

\* The override contexts of callers embedded in a record page.
RecordPages ==
    { [t |-> "object", recordId |-> Str(<< "0", "0", "1", "Z" >>),
                       recordType |-> Str(<< " ", "C", "a", "s", "e" >>)],
      [t |-> "object", recordId |-> Str(<< " ", "\t" >>)] }

EmptyEnvelope ==
    [ t |-> "object",
      schemaVersion |-> Str(<< "2" >>),
      anchorEntity |-> AcmeAnchor,
      relatedEntities |-> [t |-> "array", items |-> <<>>] ]

\* The envelopes a caller starts from: a valid anchor and no entries yet.
StartEnvelopes ==
    { EmptyEnvelope, [EmptyEnvelope EXCEPT !.anchorEntity = ProtoAnchor] }

\* The entries of relatedEntities (none when it is no array).
Items(env) ==
    IF IsObject(env) /\ Get(env, "relatedEntities").t = "array"
    THEN env.relatedEntities.items
    ELSE <<>>

AnchorNameOf(env) ==
    IF isValidAnchor(env.anchorEntity) THEN Trim(env.anchorEntity.entityName.s)
    ELSE <<>>

(***************************************************************************)
(* The state machine: a caller assembles an envelope, constructs a         *)
(* GraphDataBuilder for it and calls build.                                *)
(***************************************************************************)

VARIABLES
    envelope,     \* the envelope object the caller holds
    numFresh,     \* how many ordinary entries the caller has appended
    numSpecial,   \* how many other choices the caller has made
    overrides,    \* the { recordId, recordType } the caller passes to build
    builder,      \* the GraphDataBuilder: [envelope |-> this.envelope], or Null
    outputs       \* what the calls of build returned, in call order

\* RraComponent (the Lightning component that shows the graph)
VARIABLES
    component,    \* the fields of the component: relationshipData, graphData,
                  \* graphRendered, showCreateRecordModal,
                  \* showConfirmMatchModal, selectedNodeData, isLoading,
                  \* useAsyncExecution; and isConfirming of its
                  \* confirm-match modal
    navigations,  \* the record pages the component has opened, in order
    confirmCall,  \* the confirmCrmMatch call handleConfirmMatch awaits: its
                  \* event's nodeData, how the call has settled and the
                  \* error it was rejected with; or Null
    clicks,       \* the node data of the clicks on nodes, in order
    renders,      \* the graph data of each run of renderGraph, in order
    requests,     \* the research requests handleResearchButtonClick has
                  \* started and not seen the end of, oldest first, each
                  \* with how it was made (useAsyncExecution)
    numRequests,  \* how many research requests have been started
    numDeliveries, \* how many times the wire adapter has delivered
    d3Loaded,     \* static RraComponent.d3Loaded
    callbacks     \* the invocations of renderedCallback that are
                  \* suspended: how many await loadScript ("loading") and
                  \* how many are to resume with true ("loaded") and with
                  \* false ("failed") from loadD3

\* The component before it has loaded anything.
NewComponent ==
    [ relationshipData |-> Null,
      graphData |-> Null,
      graphRendered |-> FALSE,
      showCreateRecordModal |-> FALSE,
      showConfirmMatchModal |-> FALSE,
      selectedNodeData |-> [t |-> "object"],
      isConfirming |-> FALSE,
      isLoading |-> TRUE,
      useAsyncExecution |-> TRUE ]

loadVars == << requests, numRequests, numDeliveries, d3Loaded, callbacks >>

\* No research asked for, nothing delivered, no renderedCallback under way.
LoadIdle ==
    /\ requests = <<>>
    /\ numRequests = 0
    /\ numDeliveries = 0
    /\ d3Loaded = FALSE
    /\ callbacks = [ loading |-> 0, loaded |-> 0, failed |-> 0 ]

ClickIdle ==
    /\ component = NewComponent
    /\ navigations = <<>>
    /\ confirmCall = Null
    /\ clicks = <<>>
    /\ renders = <<>>
    /\ LoadIdle

clickVars == << component, navigations, confirmCall, clicks, renders, loadVars >>

\* RraGraph (the renderer) and the document it draws into
VARIABLES
    surface,      \* the rendering surface: whether it can measure text, and
                  \* the width of a glyph in its font
    graph,        \* the RraGraph: its options and its simulation field
    svg,          \* the children of the <svg> element, in document order
    body,         \* the children render has appended to <body>
    rendering,    \* the render call in progress or the latest one: its
                  \* argument, data.nodes with the fields render gives
                  \* them, its links, the ticks run and how far it got
                  \* ("ticking", "done", "threw"); or Null
    numRenders    \* how many times render has been called

graphVars == << surface, graph, svg, body, rendering, numRenders >>

\* The document before a graph is made for it.
GraphIdle ==
    /\ surface = [measures |-> TRUE, glyph |-> 6]
    /\ graph = Null
    /\ svg = <<>>
    /\ body = <<>>
    /\ rendering = Null
    /\ numRenders = 0

\* RraGraph._layout on its own
VARIABLES
    canvas,       \* the options of the graph: width, height, canvasMargin and
                  \* the direction of startAngle
    sized,        \* data.nodes as render has sized them; with x and y once
                  \* _layout has run
    laidOut       \* whether _layout has run

layoutVars == << canvas, sized, laidOut >>

\* No layout under way.
LayoutIdle ==
    /\ canvas = [t |-> "object"]
    /\ sized = <<>>
    /\ laidOut = FALSE

\* RraGraph._setupTooltip of the radial layout: the tooltip and the cursor
VARIABLES
    tooltip,        \* the tooltip <div>: its html, where it is (left, top),
                    \* its opacity ("0", "0.9" or "between" the two) and
                    \* its pointer-events
    currentNodeId,  \* the closure variable of _setupTooltip
    transitions,    \* the transitions d3 holds for the tooltip, oldest
                    \* first, each pending (its delay running) or active
    pointer,        \* what the cursor is over: nothing that listens
                    \* ("away"), the "label" or the rest of the "shell" of
                    \* a node, or the "tooltip"
    svgTop          \* how far down the page the <svg> is

tooltipVars == << tooltip, currentNodeId, transitions, pointer, svgTop >>

\* _createTooltip() of the radial layout, and the closure of _setupTooltip
\* as it starts.
TooltipIdle ==
    /\ tooltip = [ html |-> Undefined, at |-> <<>>, opacity |-> "0",
                   pointerEvents |-> "auto" ]
    /\ currentNodeId = Null
    /\ transitions = <<>>
    /\ pointer = [ on |-> "away", node |-> 0 ]
    /\ svgTop = 0

uiVars == << clickVars, graphVars, layoutVars, tooltipVars >>

vars == << envelope, numFresh, numSpecial, overrides, builder, outputs, uiVars >>

Init ==
    /\ envelope \in StartEnvelopes
    /\ numFresh = 0
    /\ numSpecial = 0
    /\ overrides = NoOverrides
    /\ builder = Null
    /\ outputs = <<>>
    /\ ClickIdle
    /\ GraphIdle
    /\ LayoutIdle
    /\ TooltipIdle

\* The caller appends the next ordinary entity to relatedEntities.
AddFresh ==
    /\ builder = Null
    /\ IsObject(envelope) /\ envelope.relatedEntities.t = "array"
    /\ numFresh < MaxFresh
    /\ envelope' = [envelope EXCEPT !.relatedEntities.items =
                        Append(@, FreshEntity(numFresh + 1))]
    /\ numFresh' = numFresh + 1
    /\ UNCHANGED << numSpecial, overrides, builder, outputs >>
    /\ UNCHANGED uiVars

\* The caller appends a run of entries that are not ordinary ones.
AddSpecial ==
    /\ builder = Null
    /\ IsObject(envelope) /\ envelope.relatedEntities.t = "array"
    /\ numSpecial < MaxSpecial
    /\ \E run \in SpecialRuns(AnchorNameOf(envelope)) :
          /\ \A i \in 1..Len(Items(envelope)) : Items(envelope)[i] # run[1]
          /\ envelope' = [envelope EXCEPT !.relatedEntities.items = @ \o run]
    /\ numSpecial' = numSpecial + 1
    /\ UNCHANGED << numFresh, overrides, builder, outputs >>
    /\ UNCHANGED uiVars

\* The caller's envelope has another shape: another anchor, another schema
\* version, relatedEntities that is no array, or no object at all.
Malform ==
    /\ builder = Null
    /\ envelope \in StartEnvelopes
    /\ numSpecial < MaxSpecial
    /\ \/ \E a \in OtherAnchors : envelope' = [envelope EXCEPT !.anchorEntity = a]
       \/ \E v \in OtherSchemaVersions : envelope' = [envelope EXCEPT !.schemaVersion = v]
       \/ \E r \in NonArrays : envelope' = [envelope EXCEPT !.relatedEntities = r]
       \/ envelope' \in NonObjects
    /\ numSpecial' = numSpecial + 1
    /\ UNCHANGED << numFresh, overrides, builder, outputs >>
    /\ UNCHANGED uiVars

\* The caller's envelope has the anchor and the entries whose pair keys are
\* the same.
AddPaired ==
    /\ builder = Null
    /\ envelope \in StartEnvelopes
    /\ numSpecial < MaxSpecial
    /\ envelope' = [envelope EXCEPT !.anchorEntity = PairAnchor,
                                    !.relatedEntities.items = PairEntries]
    /\ numSpecial' = numSpecial + 1
    /\ UNCHANGED << numFresh, overrides, builder, outputs >>
    /\ UNCHANGED uiVars

\* The caller is embedded in a record page and passes it to build.
Embed ==
    /\ builder = Null
    /\ envelope \in StartEnvelopes
    /\ overrides = NoOverrides
    /\ numSpecial < MaxSpecial
    /\ overrides' \in RecordPages
    /\ numSpecial' = numSpecial + 1
    /\ UNCHANGED << envelope, numFresh, builder, outputs >>
    /\ UNCHANGED uiVars

\* builder = new GraphDataBuilder(envelope); a caller may construct a new
\* builder for every call of build.
Construct ==
    /\ builder' = [envelope |-> GraphDataBuilder(envelope)]
    /\ UNCHANGED << envelope, numFresh, numSpecial, overrides, outputs >>
    /\ UNCHANGED uiVars

\* A build that drops the builder's envelope once it has returned.
Build_ForgetsEnvelope ==
    /\ builder # Null
    /\ Len(outputs) < MaxBuilds
    /\ outputs' = Append(outputs, build(builder.envelope, overrides))
    /\ builder' = [envelope |-> Null]
    /\ UNCHANGED << envelope, numFresh, numSpecial, overrides >>
    /\ UNCHANGED uiVars

\* builder.build(overrides)
Build ==
    /\ builder # Null
    /\ Len(outputs) < MaxBuilds
    /\ outputs' = Append(outputs, build(builder.envelope, overrides))
    /\ UNCHANGED << envelope, numFresh, numSpecial, overrides, builder >>
    /\ UNCHANGED uiVars

Next ==
    AddFresh \/ AddSpecial \/ AddPaired \/ Malform \/ Embed \/ Construct \/ Build

Spec == Init /\ [][Next]_vars

(***************************************************************************)
(* The properties of the builder                                           *)
(***************************************************************************)

EmptyGraph == [nodes |-> <<>>, links |-> <<>>]

\* A string with a character that is no white space.
NonBlankString(v) ==
    v.t = "string" /\ \E i \in 1..Len(v.s) : v.s[i] \notin WhiteSpace

\* A related entity with a non-blank entityName and a non-blank predicate.
ValidEntry(e) ==
    /\ IsObject(e)
    /\ NonBlankString(Get(e, "entityName"))
    /\ NonBlankString(Get(e, "predicate"))

\* The envelope fails the validity rule of the data model.
FailsValidation(env) ==
    \/ ~IsObject(env)
    \/ Get(env, "schemaVersion") # Str(<< "2" >>)
    \/ ~IsObject(Get(env, "anchorEntity"))
    \/ ~NonBlankString(Get(Get(env, "anchorEntity"), "entityName"))
    \/ Get(env, "relatedEntities").t # "array"
    \/ \A i \in 1..Len(Items(env)) : ~ValidEntry(Items(env)[i])

\* The positions of the valid entries of relatedEntities.
ValidPositions(env) == { i \in 1..Len(Items(env)) : ValidEntry(Items(env)[i]) }

NameAt(env, i) == Trim(Items(env)[i].entityName.s)

\* The trimmed names of the valid entries, by position.
ValidNames(env) == [ i \in ValidPositions(env) |-> NameAt(env, i) ]

\* The names a lookup in the map of nodes finds before any entry is added,
\* other than the anchor's own: the properties plain objects inherit and,
\* for an anchor named __proto__, the properties of the anchor node.
InheritedNames(env) ==
    ObjectPrototypeKeys \cup {ProtoKey}
        \cup (IF AnchorNameOf(env) = ProtoKey
              THEN { FieldChars[f] : f \in DOMAIN FieldChars }
              ELSE {})

\* The names of valid entries that differ from the anchor's name and are
\* not inherited names.
CandidateNames(env) ==
    LET names == ValidNames(env)
    IN  { names[i] : i \in DOMAIN names }
            \ ({AnchorNameOf(env)} \cup InheritedNames(env))

\* The valid positions whose name no earlier valid position has.
EarliestOfName(env) ==
    LET names == ValidNames(env)
    IN  { p \in DOMAIN names :
            \A q \in DOMAIN names : names[q] = names[p] => p <= q }

\* The valid positions that repeat the name of an earlier valid position.
RepeatPositions(env) == ValidPositions(env) \ EarliestOfName(env)

\* The names that several valid entries have.
RepeatedNames(env) == { NameAt(env, p) : p \in RepeatPositions(env) }

\* The pair keys of the candidate names with the anchor.
CandidateKeys(env) ==
    { keyForPair(AnchorNameOf(env), n) : n \in CandidateNames(env) }

RelatedNodes(g) == SelectSeq(g.nodes, LAMBDA n : n.isFocus # True)

FocusNodes(g) == SelectSeq(g.nodes, LAMBDA n : n.isFocus = True)

\* C1: build on an envelope that fails validation returns no nodes and no
\* links (and raises no error: every call of build has a result).
C1_InvalidEnvelopeYieldsEmptyGraph ==
    \A i \in 1..Len(outputs) :
        FailsValidation(envelope) => outputs[i] = EmptyGraph

\* Scenario A: schemaVersion "1", valid anchor and valid related entities.
C1_Witness ==
    /\ outputs # <<>>
    /\ IsObject(envelope)
    /\ envelope.schemaVersion = Str(<< "1" >>)
    /\ ValidPositions(envelope) # {}
    /\ builder.envelope = Null

\* C2 as stated: more than 8 valid entries give exactly 9 nodes and 8 links.
C2_Original ==
    \A i \in 1..Len(outputs) :
        (~FailsValidation(envelope) /\ Cardinality(ValidPositions(envelope)) > 8)
            => (Len(outputs[i].nodes) = 9 /\ Len(outputs[i].links) = 8)

\* C2 as amended: when the valid entries have more than 8 distinct trimmed
\* names that differ from the anchor's name and are not inherited names of
\* the map of nodes, and no two of these names have the same pair key with
\* the anchor, build returns exactly 8 related nodes and 8 links, and 9
\* nodes in all unless the anchor is named __proto__.
C2_CardinalityBound ==
    (outputs # <<>> /\ ~FailsValidation(envelope))
        => LET names == CandidateNames(envelope)
           IN  (/\ Cardinality(names) > 8
                /\ Cardinality(CandidateKeys(envelope)) = Cardinality(names))
                   => \A i \in 1..Len(outputs) :
                          /\ Len(RelatedNodes(outputs[i])) = 8
                          /\ Len(outputs[i].links) = 8
                          /\ AnchorNameOf(envelope) # ProtoKey
                                 => Len(outputs[i].nodes) = 9

\* Nine distinct names, and a valid entry besides them.
C2_Witness ==
    /\ outputs # <<>>
    /\ ~FailsValidation(envelope)
    /\ Cardinality(CandidateNames(envelope)) > 8
    /\ Cardinality(ValidPositions(envelope)) > 9

\* The locals of build after each iteration of its loop: element k + 1 is
\* the locals after the first k entries.
RECURSIVE LoopStates(_, _, _)
LoopStates(env, ov, k) ==
    IF k = 0 THEN << LoopStart(env.anchorEntity, ov) >>
    ELSE LET before == LoopStates(env, ov, k - 1)
         IN  Append(before,
                    LoopBody(before[Len(before)], env.relatedEntities.items[k],
                             Trim(env.anchorEntity.entityName.s)))

\* The non-focus nodes among the own properties of the map of nodes.
Collected(nodes) ==
    { i \in 1..Len(nodes.own) : nodes.own[i].value.isFocus # True }

\* C3 as stated: after every iteration of the loop of build at most 8
\* non-focus nodes are collected, and no returned graph has more than 8
\* related nodes.
C3_Original ==
    /\ \A i \in 1..Len(outputs) : Len(RelatedNodes(outputs[i])) <= 8
    /\ (outputs # <<>> /\ builder.envelope # Null)
         => LET states == LoopStates(builder.envelope, overrides,
                                     Len(builder.envelope.relatedEntities.items))
            IN  \A k \in 1..Len(states) :
                    Cardinality(Collected(states[k].nodes)) <= 8

\* The positions among the first k that the loop accepts by the rule of the
\* claims: valid, not the anchor's name, not the name of an earlier
\* accepted entry.
RECURSIVE AcceptedUpTo(_, _)
AcceptedUpTo(env, k) ==
    IF k = 0 THEN <<>>
    ELSE LET before == AcceptedUpTo(env, k - 1)
         IN  IF /\ ValidEntry(Items(env)[k])
                /\ NameAt(env, k) # AnchorNameOf(env)
                /\ \A j \in 1..Len(before) : NameAt(env, before[j]) # NameAt(env, k)
             THEN Append(before, k)
             ELSE before

\* The first 8 accepted positions.
FirstAccepted(env) ==
    LET all == AcceptedUpTo(env, Len(Items(env)))
    IN  SubSeq(all, 1, IF Len(all) < maxNodes THEN Len(all) ELSE maxNodes)

Range(seq) == { seq[i] : i \in 1..Len(seq) }

\* C4 as stated: the related nodes are the nodes of the first 8 accepted
\* entries, an entry being accepted when it is valid, does not name the
\* anchor and does not repeat an earlier accepted name.
C4_Original ==
    \A i \in 1..Len(outputs) :
        ~FailsValidation(envelope)
            => /\ Range(RelatedNodes(outputs[i])) =
                    { RelatedNode(Items(envelope)[p], NameAt(envelope, p)) :
                          p \in Range(FirstAccepted(envelope)) }
               /\ Len(RelatedNodes(outputs[i])) = Len(FirstAccepted(envelope))

\* C5: the node ids of every build output are pairwise distinct.
C5_DistinctNodeIds ==
    \A i \in 1..Len(outputs) :
        \A j, k \in 1..Len(outputs[i].nodes) :
            j # k => outputs[i].nodes[j].id # outputs[i].nodes[k].id

\* Entries of the same trimmed name, and an output of nine nodes.
C5_Witness ==
    /\ outputs # <<>>
    /\ RepeatPositions(envelope) # {}
    /\ Len(outputs[1].nodes) = maxNodes + 1

NodesOfName(g, name) == SelectSeq(g.nodes, LAMBDA n : n.isFocus # True /\ n.id = Str(name))

\* The entries at the positions of keep, in order.
RECURSIVE KeepPositions(_, _, _)
KeepPositions(items, keep, n) ==
    IF n = 0 THEN <<>>
    ELSE LET front == KeepPositions(items, keep, n - 1)
         IN  IF n \in keep THEN Append(front, items[n]) ELSE front

\* The envelope without the valid entries that repeat an earlier valid name.
WithoutRepeats(env) ==
    [ env EXCEPT !.relatedEntities.items =
        KeepPositions(@, (1..Len(@)) \ RepeatPositions(env), Len(@)) ]

\* C6 as stated: a name that several valid entries have has exactly one node,
\* with the attributes of the earliest of them.
C6_Original ==
    (outputs # <<>> /\ ~FailsValidation(envelope))
        => LET repeated == RepeatedNames(envelope)
           IN  \A p \in EarliestOfName(envelope) :
                   NameAt(envelope, p) \in repeated
                       => \A i \in 1..Len(outputs) :
                              NodesOfName(outputs[i], NameAt(envelope, p)) =
                                  << RelatedNode(Items(envelope)[p], NameAt(envelope, p)) >>

\* C6 as amended: a name that several valid entries have has at most one
\* node, and it has one exactly when the loop accepts the earliest of them
\* (a node of that name is added); the node carries the attributes of the
\* earliest entry, and the later entries change nothing in the output.
C6_FirstOccurrenceWins ==
    (outputs # <<>> /\ ~FailsValidation(envelope))
        => LET repeated == RepeatedNames(envelope)
               expected == build(GraphDataBuilder(WithoutRepeats(envelope)), overrides)
           IN  /\ \A p \in EarliestOfName(envelope) :
                      NameAt(envelope, p) \in repeated
                          => \A i \in 1..Len(outputs) :
                                 LET found == NodesOfName(outputs[i], NameAt(envelope, p))
                                 IN  \/ found = <<>>
                                     \/ found = << RelatedNode(Items(envelope)[p],
                                                               NameAt(envelope, p)) >>
               /\ repeated # {} => \A i \in 1..Len(outputs) : outputs[i] = expected

\* The name "j" comes three times among the first entries; its node is the
\* one of the first of them, and the other two have used no slot.
C6_Witness ==
    /\ outputs # <<>>
    /\ ~FailsValidation(envelope)
    /\ \E p, q \in ValidPositions(envelope) :
          /\ p < q
          /\ Items(envelope)[p] = RepeatedEntries[1]
          /\ Items(envelope)[q] = RepeatedEntries[2]
          /\ NodesOfName(outputs[1], <<"j">>) =
                 << RelatedNode(RepeatedEntries[1], <<"j">>) >>
    /\ Len(outputs[1].links) = maxNodes

\* The valid entries that name the anchor.
SelfPositions(env) ==
    { p \in ValidPositions(env) : NameAt(env, p) = AnchorNameOf(env) }

\* The envelope without the valid entries that name the anchor.
WithoutSelf(env) ==
    [ env EXCEPT !.relatedEntities.items =
        KeepPositions(@, (1..Len(@)) \ SelfPositions(env), Len(@)) ]

\* C7 as stated: no link has its source as target, the entries that name the
\* anchor add no node and no link and use no slot (the output is that of the
\* envelope without them, or the focus node alone when no other valid entry
\* is left), and an envelope whose only related entity names the anchor
\* yields 1 node and 0 links.
C7_Original ==
    (outputs # <<>> /\ ~FailsValidation(envelope))
        => LET self == SelfPositions(envelope)
               rest == build(GraphDataBuilder(WithoutSelf(envelope)), overrides)
           IN  \A i \in 1..Len(outputs) :
                   /\ \A k \in 1..Len(outputs[i].links) :
                          outputs[i].links[k].source # outputs[i].links[k].target
                   /\ (self # {} /\ self # ValidPositions(envelope))
                          => outputs[i] = rest
                   /\ (self # {} /\ self = ValidPositions(envelope))
                          => (Len(outputs[i].nodes) = 1 /\ Len(outputs[i].links) = 0)

\* C8 as stated: a non-empty output has exactly one focus node, the anchor,
\* and every link goes from the anchor to a non-focus node of the output.
C8_Original ==
    \A i \in 1..Len(outputs) :
        outputs[i] # EmptyGraph
            => /\ Len(FocusNodes(outputs[i])) = 1
               /\ FocusNodes(outputs[i])[1].id = Str(AnchorNameOf(envelope))
               /\ \A k \in 1..Len(outputs[i].links) :
                      /\ outputs[i].links[k].source = Str(AnchorNameOf(envelope))
                      /\ \E n \in Range(RelatedNodes(outputs[i])) :
                             n.id = outputs[i].links[k].target

\* The position of the earliest valid entry of a name.
PositionOfName(env, id) ==
    CHOOSE p \in EarliestOfName(env) : Str(NameAt(env, p)) = id

\* C9 as stated: the anchor node is the first node, the related nodes follow
\* in the order of their entries, and link k goes to the k-th related node.
C9_Original ==
    \A i \in 1..Len(outputs) :
        outputs[i] # EmptyGraph
            => /\ outputs[i].nodes[1].isFocus = True
               /\ Len(outputs[i].links) = Len(outputs[i].nodes) - 1
               /\ \A k \in 1..Len(outputs[i].links) :
                      outputs[i].links[k].target = outputs[i].nodes[k + 1].id
               /\ \A j, k \in 2..Len(outputs[i].nodes) :
                      j < k => PositionOfName(envelope, outputs[i].nodes[j].id)
                                   < PositionOfName(envelope, outputs[i].nodes[k].id)

RECURSIVE FirstNonBlank(_)
FirstNonBlank(vs) ==
    IF vs = <<>> THEN Undefined
    ELSE IF NonBlankString(Head(vs)) THEN Head(vs)
    ELSE FirstNonBlank(Tail(vs))

\* v as a node carries it: a string without its leading and trailing white
\* space.
Trimmed(v) == IF v.t = "string" THEN Str(Trim(v.s)) ELSE v

\* The graph g with the recordId and recordType of its focus nodes removed.
WithoutRecord(g) ==
    [ g EXCEPT !.nodes =
        [ j \in 1..Len(g.nodes) |->
            IF g.nodes[j].isFocus = True
            THEN [g.nodes[j] EXCEPT !.recordId = Undefined, !.recordType = Undefined]
            ELSE g.nodes[j] ] ]

C19_Original ==
    (outputs # <<>> /\ ~FailsValidation(envelope))
        => LET names == ValidNames(envelope)
               anchorName == AnchorNameOf(envelope)
           IN  /\ \A p, q \in DOMAIN names :
                      keyForPair(anchorName, names[p]) = keyForPair(anchorName, names[q])
                          => names[p] = names[q]
               /\ \A i \in 1..Len(outputs) :
                      Len(outputs[i].links) = Len(RelatedNodes(outputs[i]))

(***************************************************************************)
(* RraComponent: loading the relationships of a record page, clicks on     *)
(* nodes, and confirming a match.                                          *)
(***************************************************************************)

\* How many entities the stored envelope of the record page has at most, and
\* how many clicks on nodes are followed.
MaxEntities == 2
MaxClicks == 2

\* The record page the component sits on: this.recordId, this.objectApiName.
PageOverrides ==
    [ t |-> "object",
      recordId |-> Str(<< "0", "0", "1", "Z" >>),
      recordType |-> Str(<< "A", "c", "c", "o", "u", "n", "t" >>) ]

\* A related entity as the stored envelope carries it.
PageEntity(name, fields) ==
    [ k \in {"t", "entityName", "predicate"} \cup DOMAIN fields |->
        CASE k = "t" -> "object"
          [] k = "entityName" -> Str(name)
          [] k = "predicate" -> Str(<< "k", "n", "o", "w", "s" >>)
          [] OTHER -> fields[k] ]

\* A web match with a uuid, one without, a web entity without a record, a
\* CRM entity (no uuid, the most important one) and a web match that is
\* already confirmed.
PageEntities ==
    { PageEntity(<< "a" >>, [ source |-> Str(Web),
                              recordId |-> Str(<< "0", "0", "3", "A" >>),
                              recordType |-> Str(<< "c", "o", "n", "t", "a", "c", "t" >>),
                              isCrmConfirmed |-> False,
                              uuid |-> Str(<< "u", "1" >>) ]),
      PageEntity(<< "b" >>, [ source |-> Str(Web),
                              recordId |-> Str(<< "0", "0", "3", "B" >>),
                              recordType |-> Str(<< "l", "e", "a", "d" >>) ]),
      PageEntity(<< "c" >>, [ source |-> Str(Web),
                              uuid |-> Str(<< "u", "3" >>) ]),
      PageEntity(<< "d" >>, [ source |-> Str(Crm),
                              recordId |-> Str(<< "0", "0", "3", "D" >>),
                              recordType |-> Str(Account),
                              importanceScore |-> Number(<< "5" >>) ]),
      PageEntity(<< "e" >>, [ source |-> Str(Web),
                              recordId |-> Str(<< "0", "0", "3", "E" >>),
                              isCrmConfirmed |-> True,
                              uuid |-> Str(<< "u", "5" >>) ]) }

\* The relatedEntities arrays of the stored envelopes: entities of different
\* names, in any order.
RECURSIVE EntityRuns(_)
EntityRuns(n) ==
    IF n = 0 THEN { <<>> }
    ELSE LET shorter == EntityRuns(n - 1)
         IN  shorter \cup
             { Append(run, e) : run \in { r \in shorter : Len(r) = n - 1 },
                                e \in PageEntities }

StoredEnvelopes ==
    { [EmptyEnvelope EXCEPT !.relatedEntities.items = run] :
        run \in { r \in EntityRuns(MaxEntities) :
                    /\ r # <<>>
                    /\ \A i, j \in 1..Len(r) : r[i] = r[j] => i = j } }

\* The value of a number written with one digit.
DigitValue(c) ==
    CHOOSE d \in 0..9 :
        << "0", "1", "2", "3", "4", "5", "6", "7", "8", "9" >>[d + 1] = c

\* (e.importanceScore || 0) of the comparator in loadRelationships
importanceScore(e) ==
    LET v == Or(Get(e, "importanceScore"), Number(<< "0" >>))
    IN  DigitValue(v.s[1])

\* Array.prototype.sort((a, b) => (b.importanceScore || 0) -
\* (a.importanceScore || 0)): stable, most important first.
RECURSIVE sortByImportance(_)
sortByImportance(items) ==
    IF items = <<>> THEN <<>>
    ELSE LET n == Len(items)
             e == items[n]
             sorted == sortByImportance(SubSeq(items, 1, n - 1))
             k == Cardinality({ i \in 1..Len(sorted) :
                                  importanceScore(sorted[i]) >= importanceScore(e) })
         IN  SubSeq(sorted, 1, k) \o << e >> \o SubSeq(sorted, k + 1, Len(sorted))

\* o.f = v
SetProperty(o, f, v) ==
    [ k \in DOMAIN o \cup {f} |-> IF k = f THEN v ELSE o[k] ]

\* RraComponent.RECORD_TYPE_TITLECASE[recordType] || ""
titlecaseRecordType(recordType) ==
    CASE recordType = Str(<< "l", "e", "a", "d" >>) -> Str(<< "L", "e", "a", "d" >>)
      [] recordType = Str(<< "c", "o", "n", "t", "a", "c", "t" >>) ->
             Str(<< "C", "o", "n", "t", "a", "c", "t" >>)
      [] recordType = Str(Account) -> Str(<< "A", "c", "c", "o", "u", "n", "t" >>)
      [] recordType = Str(<< "o", "p", "p", "o", "r", "t", "u", "n", "i", "t", "y" >>) ->
             Str(<< "O", "p", "p", "o", "r", "t", "u", "n", "i", "t", "y" >>)
      [] OTHER -> Str(<<>>)

\* { ...nodeData, titlecaseRecordType: ... }
SelectedNode(nodeData) ==
    SetProperty(nodeData, "titlecaseRecordType",
                titlecaseRecordType(nodeData.recordType))

\* The record page window.open is given: the attributes handed to
\* NavigationMixin.GenerateUrl.
RecordPage(nodeData) ==
    [ recordId |-> nodeData.recordId, objectApiName |-> nodeData.recordType ]

\* A click handler that never asks for a match to be confirmed.
handleNodeClick_NeverConfirms(c, opened, nodeData) ==
    IF Truthy(nodeData.recordId)
    THEN [ component |-> c, navigations |-> Append(opened, RecordPage(nodeData)) ]
    ELSE [ component |-> [c EXCEPT !.selectedNodeData = SelectedNode(nodeData),
                                   !.showCreateRecordModal = TRUE],
           navigations |-> opened ]

\* RraComponent.handleNodeClick(nodeData), on the component's fields and the
\* pages opened so far.
handleNodeClick(c, opened, nodeData) ==
    IF Truthy(nodeData.recordId)
    THEN IF Get(nodeData, "source") = Str(Web)
            /\ ~Truthy(Get(nodeData, "isCrmConfirmed"))
         THEN [ component |-> [c EXCEPT !.selectedNodeData = SelectedNode(nodeData),
                                        !.showConfirmMatchModal = TRUE],
                navigations |-> opened ]
         ELSE [ component |-> c,
                navigations |-> Append(opened, RecordPage(nodeData)) ]
    ELSE [ component |-> [c EXCEPT !.selectedNodeData = SelectedNode(nodeData),
                                   !.showCreateRecordModal = TRUE],
           navigations |-> opened ]

\* new GraphDataBuilder(this.relationshipData).build({ recordId:
\* this.recordId, recordType: this.objectApiName })
PageGraph(relationshipData) ==
    build(GraphDataBuilder(relationshipData), PageOverrides)

\* relatedEntities.find((entity) => entity.uuid === nodeData.uuid): the
\* position of the first such entity, 0 when there is none.
findByUuid(items, nodeData) ==
    LET found == { i \in 1..Len(items) :
                     Get(items[i], "uuid") = Get(nodeData, "uuid") }
    IN  IF found = {} THEN 0
        ELSE CHOOSE i \in found : \A j \in found : i <= j

BuilderIdle ==
    /\ envelope = EmptyEnvelope
    /\ numFresh = 0
    /\ numSpecial = 0
    /\ overrides = NoOverrides
    /\ builder = Null
    /\ outputs = <<>>

builderVars == << envelope, numFresh, numSpecial, overrides, builder, outputs >>

InitClick ==
    /\ BuilderIdle
    /\ ClickIdle
    /\ GraphIdle
    /\ LayoutIdle
    /\ TooltipIdle

\* The data of a RRARelationships__c record, parsed: its RelationshipJson__c
\* field holds the envelope, or is not there.
RecordOf(stored) == [ t |-> "record", RelationshipJson |-> stored ]

\* loadRelationships(data), data being Undefined (empty) or a record.
loadRelationships(c, data) ==
    IF data = Undefined THEN c
    ELSE IF data.RelationshipJson = Undefined
    THEN [c EXCEPT !.relationshipData = Null, !.graphData = Null]
    ELSE LET relationshipData ==
                 [data.RelationshipJson EXCEPT
                     !.relatedEntities.items = sortByImportance(@)]
         IN  [c EXCEPT !.relationshipData = relationshipData,
                       !.graphData = PageGraph(relationshipData)]

\* loadRelationships(data) for the data of a record that holds an envelope.
LoadRelationships ==
    /\ component.relationshipData = Null
    /\ \E stored \in StoredEnvelopes :
          component' = loadRelationships(component, RecordOf(stored))
    /\ UNCHANGED << navigations, confirmCall, clicks, renders, loadVars,
                    builderVars, graphVars, layoutVars, tooltipVars >>

\* renderedCallback(): the first rendering of the loaded graph.
RenderedCallback ==
    /\ ~component.graphRendered
    /\ component.graphData # Null
    /\ renders' = Append(renders, component.graphData)
    /\ component' = [component EXCEPT !.graphRendered = TRUE]
    /\ UNCHANGED << navigations, confirmCall, clicks, loadVars,
                    builderVars, graphVars, layoutVars, tooltipVars >>

\* A click on one of the nodes of the graph on screen; an open modal covers
\* the graph.
HandleNodeClick ==
    /\ renders # <<>>
    /\ ~component.showCreateRecordModal
    /\ ~component.showConfirmMatchModal
    /\ Len(clicks) < MaxClicks
    /\ \E i \in 1..Len(renders[Len(renders)].nodes) :
          LET nodeData == renders[Len(renders)].nodes[i]
              after == handleNodeClick(component, navigations, nodeData)
          IN  /\ clicks' = Append(clicks, nodeData)
              /\ component' = after.component
              /\ navigations' = after.navigations
    /\ UNCHANGED << confirmCall, renders, loadVars,
                    builderVars, graphVars, layoutVars, tooltipVars >>

\* handleCloseCreateRecordModal()
HandleCloseCreateRecordModal ==
    /\ component.showCreateRecordModal
    /\ component' = [component EXCEPT !.showCreateRecordModal = FALSE]
    /\ UNCHANGED << navigations, confirmCall, clicks, renders, loadVars,
                    builderVars, graphVars, layoutVars, tooltipVars >>

\* handleCloseConfirmModal(), with the reset() of the modal
handleCloseConfirmModal(c) ==
    [c EXCEPT !.showConfirmMatchModal = FALSE, !.isConfirming = FALSE]

\* The confirm-match modal is closed by its user.
HandleCloseConfirmModal ==
    /\ component.showConfirmMatchModal
    /\ component' = handleCloseConfirmModal(component)
    /\ UNCHANGED << navigations, confirmCall, clicks, renders, loadVars,
                    builderVars, graphVars, layoutVars, tooltipVars >>

\* What confirmCrmMatch may be rejected with: the error of the Apex method,
\* which has a body, and an error that has none.
ConfirmErrors ==
    { [ t |-> "object",
        body |-> [ t |-> "object", message |-> Str(<< "n", "o" >>) ] ],
      [ t |-> "object", message |-> Str(<< "o", "f", "f" >>) ] }

\* handleConfirm() of the confirm-match modal, and handleConfirmMatch(event)
\* up to its await: the modal sends the node it was opened for, and
\* confirmCrmMatch is called.
HandleConfirmMatch ==
    /\ component.showConfirmMatchModal
    /\ ~component.isConfirming
    /\ confirmCall = Null
    /\ confirmCall' = [ nodeData |-> component.selectedNodeData,
                        settled |-> "pending", error |-> Null ]
    /\ component' = [component EXCEPT !.isConfirming = TRUE]
    /\ UNCHANGED << navigations, clicks, renders, loadVars,
                    builderVars, graphVars, layoutVars, tooltipVars >>

\* The Apex call confirmCrmMatch returns or throws.
ConfirmCrmMatchSettles ==
    /\ confirmCall # Null
    /\ confirmCall.settled = "pending"
    /\ \/ confirmCall' = [confirmCall EXCEPT !.settled = "resolved"]
       \/ \E error \in ConfirmErrors :
             confirmCall' = [confirmCall EXCEPT !.settled = "rejected",
                                                !.error = error]
    /\ UNCHANGED << component, navigations, clicks, renders, loadVars,
                    builderVars, graphVars, layoutVars, tooltipVars >>

\* handleConfirmMatch(event) after its await.  Its catch block reads
\* error.body.message for the toast, which throws when the error has no
\* body, before the block has reached the modal.
ResumeConfirmMatch ==
    /\ confirmCall # Null
    /\ confirmCall.settled # "pending"
    /\ confirmCall' = Null
    /\ IF confirmCall.settled = "rejected"
       THEN /\ IF Get(confirmCall.error, "body") = Undefined
                  \/ ~component.showConfirmMatchModal
               THEN UNCHANGED component
               ELSE component' = [component EXCEPT !.isConfirming = FALSE]
            /\ UNCHANGED renders
       ELSE LET items == component.relationshipData.relatedEntities.items
                found == findByUuid(items, confirmCall.nodeData)
            IN  IF found = 0
                THEN /\ component' = handleCloseConfirmModal(component)
                     /\ UNCHANGED renders
                ELSE LET relationshipData ==
                             [component.relationshipData EXCEPT
                                 !.relatedEntities.items[found] =
                                     SetProperty(@, "isCrmConfirmed", True)]
                         graphData == PageGraph(relationshipData)
                     IN  /\ component' = handleCloseConfirmModal(
                                            [component EXCEPT
                                               !.relationshipData = relationshipData,
                                               !.graphData = graphData])
                         /\ renders' = Append(renders, graphData)
    /\ UNCHANGED << navigations, clicks, loadVars,
                    builderVars, graphVars, layoutVars, tooltipVars >>

NextClick ==
    \/ LoadRelationships
    \/ RenderedCallback
    \/ HandleNodeClick
    \/ HandleCloseCreateRecordModal
    \/ HandleCloseConfirmModal
    \/ HandleConfirmMatch
    \/ ConfirmCrmMatchSettles
    \/ ResumeConfirmMatch

SpecClick == InitClick /\ [][NextClick]_vars

(***************************************************************************)
(* Properties of the component                                             *)
(***************************************************************************)

\* What a click step did, from the state before it to the state after it.
OpenedCreateModalOnly ==
    /\ component'.showCreateRecordModal
    /\ component'.showConfirmMatchModal = component.showConfirmMatchModal
    /\ navigations' = navigations

OpenedConfirmModalOnly ==
    /\ component'.showConfirmMatchModal
    /\ component'.showCreateRecordModal = component.showCreateRecordModal
    /\ navigations' = navigations

NavigatedOnly(nodeData) ==
    /\ navigations' = Append(navigations,
                             [ recordId |-> nodeData.recordId,
                               objectApiName |-> nodeData.recordType ])
    /\ component'.showCreateRecordModal = component.showCreateRecordModal
    /\ component'.showConfirmMatchModal = component.showConfirmMatchModal

\* C17: a click on a node has exactly one outcome, decided by the node's
\* data: a node without recordId opens only the create-record modal; a node
\* with recordId whose source is "web" and whose isCrmConfirmed is false
\* opens only the confirm-match modal; any other node with recordId
\* navigates to its record page and opens no modal.
C17_ClickHasOneOutcome ==
    [][ clicks' # clicks
          => LET nodeData == clicks'[Len(clicks')]
             IN  IF nodeData.recordId = Undefined
                 THEN OpenedCreateModalOnly
                 ELSE IF /\ Get(nodeData, "source") = Str(Web)
                         /\ Get(nodeData, "isCrmConfirmed") = False
                      THEN OpenedConfirmModalOnly
                      ELSE NavigatedOnly(nodeData) ]_vars

\* Two clicks, one on a web match that opened the confirm-match modal and
\* one on a CRM entity that opened its record page.
C17_Witness ==
    /\ Len(clicks) = MaxClicks
    /\ \E i \in 1..Len(clicks) :
          /\ Get(clicks[i], "source") = Str(Web)
          /\ clicks[i].recordId # Undefined
          /\ Get(clicks[i], "isCrmConfirmed") = False
    /\ component.showConfirmMatchModal
    /\ ~component.showCreateRecordModal
    /\ Len(navigations) = 1
    /\ navigations[1].recordId = Str(<< "0", "0", "3", "D" >>)

\* C18 as stated: after the confirmCrmMatch call succeeds for a clicked node
\* whose uuid matches an envelope entity, an entity with that uuid has
\* isCrmConfirmed true, the graph data is rebuilt from the whole envelope by
\* a new GraphDataBuilder and rendered again, the node's isCrmLink is true
\* in the rebuilt graph, and a later click on that node navigates to the
\* record instead of reopening the confirm-match modal.
C18_Original ==
    [][ ( /\ confirmCall # Null
          /\ confirmCall.settled = "resolved"
          /\ confirmCall' = Null
          /\ findByUuid(component.relationshipData.relatedEntities.items,
                        confirmCall.nodeData) # 0 )
          => LET nodeData == confirmCall.nodeData
                 entities == component'.relationshipData.relatedEntities.items
                 rebuilt == component'.graphData
             IN  /\ \E i \in 1..Len(entities) :
                        /\ Get(entities[i], "uuid") = Get(nodeData, "uuid")
                        /\ Get(entities[i], "isCrmConfirmed") = True
                 /\ rebuilt = PageGraph(component'.relationshipData)
                 /\ renders' = Append(renders, rebuilt)
                 /\ \A j \in 1..Len(rebuilt.nodes) :
                        LET node == rebuilt.nodes[j]
                        IN  node.id = nodeData.id
                                => /\ node.isCrmLink = True
                                   /\ handleNodeClick(component', navigations', node)
                                          .navigations
                                        = Append(navigations', RecordPage(node)) ]_vars

\* C26 as stated: if the confirmCrmMatch call fails, handleConfirmMatch
\* leaves relationshipData and graphData unchanged, does not render again,
\* leaves the confirm-match modal open, and resets the modal's isConfirming
\* flag to false.
C26_Original ==
    [][ ( /\ confirmCall # Null
          /\ confirmCall.settled = "rejected"
          /\ confirmCall' = Null )
          => /\ component'.relationshipData = component.relationshipData
             /\ component'.graphData = component.graphData
             /\ renders' = renders
             /\ component'.showConfirmMatchModal = component.showConfirmMatchModal
             /\ component'.isConfirming = FALSE ]_vars

\* C27 as stated: a successful confirmation sets isCrmConfirmed on exactly
\* one entity of the envelope, and that entity is the one from which the
\* clicked node was built (the node's id is the name of its entity); no
\* other entity's provenance changes, for every envelope including ones
\* where entities have no uuid or share a uuid.
C27_Original ==
    [][ ( /\ confirmCall # Null
          /\ confirmCall.settled = "resolved"
          /\ confirmCall' = Null )
          => LET before == component.relationshipData.relatedEntities.items
                 after == component'.relationshipData.relatedEntities.items
                 changed == { i \in 1..Len(before) : after[i] # before[i] }
             IN  /\ Len(after) = Len(before)
                 /\ \E i \in 1..Len(before) :
                        /\ changed = { i }
                        /\ before[i].entityName = confirmCall.nodeData.id
                        /\ after[i] = SetProperty(before[i], "isCrmConfirmed", True) ]_vars

(***************************************************************************)
(* RraGraph: clear() and render(data)                                      *)
(***************************************************************************)

\* RraGraph.defaultOptions
shellHeight == 40
shellPadding == 12
shellIconTextGap == 8
orbitRadius == 250
minEdgeLength == 100
shellGap == 30
iconSize == 22
maxLabelChars == 20

\* How many calls of render are followed, and how many relaxation steps of
\* the simulation stand for the 150 of simulation.tick(150).
MaxRenders == 2
MaxTicks == 2

\* The width, height and canvasMargin a graph is constructed with: the
\* defaults, the 400 x 400 of RraComponent, and a 200 x 200 canvas with a
\* margin of 20.
GraphOptions ==
    { [width |-> 800, height |-> 800, canvasMargin |-> 60],
      [width |-> 400, height |-> 400, canvasMargin |-> 60],
      [width |-> 200, height |-> 200, canvasMargin |-> 20] }

\* Rendering surfaces: two fonts that can be measured, and a surface that
\* cannot measure text.
Surfaces ==
    { [measures |-> TRUE, glyph |-> 6],
      [measures |-> TRUE, glyph |-> 8],
      [measures |-> FALSE, glyph |-> 0] }

\* What getBBox and getComputedTextLength do on a surface that cannot
\* measure text depends on the browser: they throw, or they return 0.
MeasureFailures == {"throws", "zero"}

DataNode(id, label, isFocus) ==
    [ t |-> "object", id |-> Str(id), label |-> label, isFocus |-> isFocus,
      isCrmLink |-> isFocus, recordId |-> Undefined ]

DataLink(source, target) ==
    [ t |-> "object", source |-> Str(source), target |-> Str(target),
      isCrmLink |-> False ]

LongLabel ==
    << "I", "n", "t", "e", "r", "n", "a", "t", "i", "o", "n", "a", "l", " ",
       "B", "u", "s", "i", "n", "e", "s", "s", " ", "M", "a", "c", "h" >>

\* The data given to render: graphs of an anchor with 0, 1, 2 and 4 related
\* nodes, one whose links name nodes that are not in data.nodes, and one
\* without a node flagged isFocus.
RenderData ==
    { [ nodes |-> << DataNode(<< "A" >>, Str(<< "A", "c", "m", "e" >>), True) >>,
        links |-> <<>> ],
      [ nodes |-> << DataNode(<< "A" >>, Str(<< "A", "c", "m", "e" >>), True),
                     DataNode(<< "b" >>, Str(LongLabel), False) >>,
        links |-> << DataLink(<< "A" >>, << "b" >>) >> ],
      [ nodes |-> << DataNode(<< "b" >>, Undefined, False),
                     DataNode(<< "A" >>, Str(<< "A", "c", "m", "e" >>), True),
                     DataNode(<< "c" >>, Str(<< "C", "y" >>), False) >>,
        links |-> << DataLink(<< "A" >>, << "b" >>),
                     DataLink(<< "A" >>, << "x" >>),
                     DataLink(<< "y" >>, << "c" >>),
                     DataLink(<< "A" >>, << "c" >>) >> ],
      [ nodes |-> << DataNode(<< "A" >>, Str(<< "A", "c", "m", "e" >>), True),
                     DataNode(<< "b" >>, Str(<< "B", "e", "e" >>), False),
                     DataNode(<< "c" >>, Str(<< "C", "y" >>), False),
                     DataNode(<< "d" >>, Str(LongLabel), False),
                     DataNode(<< "e" >>, Undefined, False) >>,
        links |-> << DataLink(<< "A" >>, << "b" >>),
                     DataLink(<< "A" >>, << "c" >>),
                     DataLink(<< "A" >>, << "d" >>),
                     DataLink(<< "A" >>, << "e" >>) >> ],
      [ nodes |-> << DataNode(<< "b" >>, Str(<< "B", "e", "e" >>), False),
                     DataNode(<< "c" >>, Str(<< "C", "y" >>), False) >>,
        links |-> << DataLink(<< "_", "_", "p", "r", "o", "t", "o", "_", "_" >>, << "b" >>),
                     DataLink(<< "_", "_", "p", "r", "o", "t", "o", "_", "_" >>, << "c" >>) >> ] }

\* The character render puts at the end of a label it has cut.
Ellipsis == << "..." >>

\* getLabelText(d): d.label ?? d.id, cut to maxLabelChars characters
getLabelText(d) ==
    LET text == IF d.label \in {Undefined, Null} THEN d.id.s ELSE d.label.s
    IN  IF Len(text) > maxLabelChars
        THEN SubSeq(text, 1, maxLabelChars) \o Ellipsis
        ELSE text

\* measureLabelMetrics(svg, [text]).maxLabelWidth on a surface that can
\* measure text: the computed text length in the surface's font; on one
\* that cannot, with getComputedTextLength returning 0.
measureLabelMetrics(onSurface, text) ==
    IF onSurface.measures THEN Len(text) * onSurface.glyph ELSE 0

\* The body of the forEach of _calculateNodeDimensions, for one node. The
\* glyph widths are even, so that the halves are whole numbers.
calculateNodeDimensions(onSurface, node) ==
    LET labelWidth == measureLabelMetrics(onSurface, getLabelText(node))
        badgeSpace == IF node.isFocus = True THEN 0 ELSE 40
        shellWidth == shellPadding + iconSize + shellIconTextGap + labelWidth
                          + shellPadding + badgeSpace
        halfWidth == shellWidth \div 2
        halfHeight == shellHeight \div 2
    IN  [ k \in DOMAIN node \cup {"shellWidth", "shellHalfWidth", "shellHalfHeight",
                                  "collisionRadius"} |->
            CASE k = "shellWidth" -> shellWidth
              [] k = "shellHalfWidth" -> halfWidth
              [] k = "shellHalfHeight" -> halfHeight
              [] k = "collisionRadius" ->
                     (IF halfWidth > halfHeight THEN halfWidth ELSE halfHeight) + 5
              [] OTHER -> node[k] ]

\* o with the fields of extra set
WithFields(o, extra) ==
    [ k \in DOMAIN o \cup DOMAIN extra |-> IF k \in DOMAIN extra THEN extra[k] ELSE o[k] ]

\* nodes.find((n) => n.isFocus) ?? nodes[0], as a position in nodes; 0 when
\* nodes is empty
focusOf(nodes) ==
    LET flagged == { i \in 1..Len(nodes) : Truthy(nodes[i].isFocus) }
    IN  IF flagged # {} THEN CHOOSE i \in flagged : \A j \in flagged : i <= j
        ELSE IF nodes # <<>> THEN 1 ELSE 0

\* The positions in nodes of nodes.filter((n) => n !== focus), in order
relatedOf(nodes) ==
    LET RECURSIVE upTo(_)
        upTo(n) == IF n = 0 THEN <<>>
                   ELSE IF n = focusOf(nodes) THEN upTo(n - 1)
                   ELSE Append(upTo(n - 1), n)
    IN  upTo(Len(nodes))

\* related.reduce((sum, node) => sum + node.shellWidth + shellGap, 0)
RECURSIVE totalArcNeeded(_, _)
totalArcNeeded(nodes, related) ==
    IF related = <<>> THEN 0
    ELSE nodes[Head(related)].shellWidth + shellGap
             + totalArcNeeded(nodes, Tail(related))

\* Math.max(orbitRadius, totalArcNeeded / (2 * Math.PI), minEdgeLength), in
\* whole pixels, with 3.14159 for Math.PI
targetRadiusOf(nodes) ==
    LET radiusFromArc == (totalArcNeeded(nodes, relatedOf(nodes)) * 100000)
                             \div (2 * 314159)
        larger == IF orbitRadius > minEdgeLength THEN orbitRadius ELSE minEdgeLength
    IN  IF radiusFromArc > larger THEN radiusFromArc ELSE larger

\* (Math.cos(theta), Math.sin(theta)) for theta = startAngle + 2 * PI * i / N
\* with startAngle = -PI / 2, for the N for which theta is a whole number of
\* quarter turns; y grows downwards.
Direction(i, N) ==
    LET quarter == ((4 * i) \div N) % 4
    IN  CASE quarter = 0 -> [cos |-> 0, sin |-> -1]
          [] quarter = 1 -> [cos |-> 1, sin |-> 0]
          [] quarter = 2 -> [cos |-> 0, sin |-> 1]
          [] quarter = 3 -> [cos |-> -1, sin |-> 0]

\* The value of fx or fy on a node that is fixed at coordinate v.
Fixed(v) == [t |-> "number", v |-> v]

\* An initial placement that leaves the focus node free to move.
initializePositions_FocusFree(options, nodes) ==
    LET cx == options.width \div 2
        cy == options.height \div 2
        related == relatedOf(nodes)
        N == Len(related)
        targetRadius == targetRadiusOf(nodes)
    IN  [ i \in 1..Len(nodes) |->
            IF i = focusOf(nodes)
            THEN WithFields(nodes[i], [x |-> cx, y |-> cy, fx |-> Null, fy |-> Null,
                                       depth |-> 0])
            ELSE LET k == CHOOSE k \in 1..N : related[k] = i
                 IN  WithFields(nodes[i],
                         [ x |-> cx + targetRadius * Direction(k - 1, N).cos,
                           y |-> cy + targetRadius * Direction(k - 1, N).sin,
                           fx |-> Null, fy |-> Null,
                           depth |-> 1, targetRadius |-> targetRadius ]) ]

\* _initializePositions(nodes): the nodes with the fields it gives them
\* (fx and fy are null on a node the simulation may move).
initializePositions(options, nodes) ==
    LET cx == options.width \div 2
        cy == options.height \div 2
        related == relatedOf(nodes)
        N == Len(related)
        targetRadius == targetRadiusOf(nodes)
    IN  [ i \in 1..Len(nodes) |->
            IF i = focusOf(nodes)
            THEN WithFields(nodes[i], [x |-> cx, y |-> cy,
                                       fx |-> Fixed(cx), fy |-> Fixed(cy),
                                       depth |-> 0])
            ELSE LET k == CHOOSE k \in 1..N : related[k] = i
                 IN  WithFields(nodes[i],
                         [ x |-> cx + targetRadius * Direction(k - 1, N).cos,
                           y |-> cy + targetRadius * Direction(k - 1, N).sin,
                           fx |-> Null, fy |-> Null,
                           depth |-> 1, targetRadius |-> targetRadius ]) ]

\* new Map(data.nodes.map((n) => [n.id, n])).get(id) is defined
HasNode(nodes, id) == \E i \in 1..Len(nodes) : nodes[i].id = id

\* A link processing that keeps every link.
processLinks_KeepAll(nodes, links) == links

\* The links render draws: (data.links || []) without those whose source or
\* target is not the id of a node.
processLinks(nodes, links) ==
    SelectSeq(links, LAMBDA link : HasNode(nodes, link.source)
                                   /\ HasNode(nodes, link.target))

\* The <g class="graph-root"> render appends to the svg: one line and one
\* edge badge per processed link and one group per node; their coordinates
\* are set when the simulation has run.
RootGroup(nodes, links) ==
    [ tag |-> "g", class |-> "graph-root",
      lines |-> [ i \in 1..Len(links) |->
                    [ source |-> links[i].source, target |-> links[i].target,
                      from |-> <<>>, to |-> <<>> ] ],
      edgeBadges |-> [ i \in 1..Len(links) |->
                         [ source |-> links[i].source, target |-> links[i].target,
                           transform |-> <<>> ] ],
      nodes |-> [ i \in 1..Len(nodes) |-> [ id |-> nodes[i].id, transform |-> <<>> ] ] ]

\* The node of that id that nodeById holds: the last one in nodes.
NodeById(nodes, id) ==
    nodes[CHOOSE i \in 1..Len(nodes) :
              /\ nodes[i].id = id
              /\ \A j \in 1..Len(nodes) : nodes[j].id = id => j <= i]

\* The final position update of render on the elements of the root group.
Positioned(root, nodes) ==
    [ root EXCEPT
        !.lines = [ i \in 1..Len(root.lines) |->
                      LET source == NodeById(nodes, root.lines[i].source)
                          target == NodeById(nodes, root.lines[i].target)
                      IN  [ root.lines[i] EXCEPT !.from = << source.x, source.y >>,
                                                  !.to = << target.x, target.y >> ] ],
        !.edgeBadges = [ i \in 1..Len(root.edgeBadges) |->
                           LET source == NodeById(nodes, root.edgeBadges[i].source)
                               target == NodeById(nodes, root.edgeBadges[i].target)
                           IN  [ root.edgeBadges[i] EXCEPT
                                   !.transform = << (source.x + target.x) \div 2,
                                                    (source.y + target.y) \div 2 >> ] ],
        !.nodes = [ i \in 1..Len(nodes) |->
                      [ root.nodes[i] EXCEPT !.transform = << nodes[i].x, nodes[i].y >> ] ] ]

\* The hidden <text> measureLabelMetrics appends to the svg to measure with.
MeasuringText == [ tag |-> "text", class |-> "node-label" ]

\* _createTooltip(): the <div> appended to the body.
Tooltip == [ tag |-> "div", class |-> "rra-tooltip" ]

\* One step of the simulation on a node, which the forces push by delta:
\* a node with fx and fy is put back there.
tickNode(node, delta) ==
    IF node.fx # Null
    THEN [ node EXCEPT !.x = node.fx.v, !.y = node.fy.v ]
    ELSE [ node EXCEPT !.x = @ + delta[1], !.y = @ + delta[2] ]

\* The pushes a step of the simulation may give a node.
Pushes == { << 40, 0 >>, << -10, -30 >> }

InitGraph ==
    /\ BuilderIdle
    /\ ClickIdle
    /\ surface \in Surfaces
    /\ graph = Null
    /\ svg = <<>>
    /\ body = <<>>
    /\ rendering = Null
    /\ numRenders = 0
    /\ LayoutIdle
    /\ TooltipIdle

InRender == rendering # Null /\ rendering.status = "ticking"

\* new RraGraph(options)
NewGraph ==
    /\ rendering = Null
    /\ \E options \in GraphOptions :
          /\ graph # Null => graph.options # options
          /\ graph' = [ options |-> options, simulation |-> Null ]
    /\ UNCHANGED << surface, svg, body, rendering, numRenders, builderVars, clickVars, layoutVars, tooltipVars >>

\* clear(); the nodes of a finished render are given up with its elements.
Clear ==
    /\ graph # Null
    /\ ~InRender
    /\ graph' = [ graph EXCEPT !.simulation = Null ]
    /\ svg' = <<>>
    /\ rendering' = Null
    /\ UNCHANGED << surface, body, numRenders, builderVars, clickVars, layoutVars, tooltipVars >>

\* render(data) on a cleared surface, up to simulation.tick(150).
RenderStart ==
    /\ graph # Null
    /\ ~InRender
    /\ svg = <<>>
    /\ numRenders < MaxRenders
    /\ numRenders' = numRenders + 1
    /\ \E data \in RenderData :
       \E failure \in IF surface.measures THEN {"none"} ELSE MeasureFailures :
          IF failure = "throws"
          THEN /\ svg' = << MeasuringText >>
               /\ rendering' = [ data |-> data, nodes |-> data.nodes,
                                 links |-> <<>>, ticks |-> 0, status |-> "threw" ]
               /\ UNCHANGED graph
          ELSE LET measured == [ i \in 1..Len(data.nodes) |->
                                   calculateNodeDimensions(surface, data.nodes[i]) ]
                   nodes == initializePositions(graph.options, measured)
                   links == processLinks(nodes, data.links)
               IN  /\ svg' = << RootGroup(nodes, links) >>
                   /\ rendering' = [ data |-> data, nodes |-> nodes,
                                     links |-> links, ticks |-> 0,
                                     status |-> "ticking" ]
                   /\ graph' = [ graph EXCEPT !.simulation = "running" ]
    /\ UNCHANGED << surface, body, builderVars, clickVars, layoutVars, tooltipVars >>

\* One of the steps of simulation.tick(150): the forces push every node, or
\* only the first one that is free to move.
Tick ==
    /\ InRender
    /\ rendering.ticks < MaxTicks
    /\ \E delta \in Pushes, everyNode \in BOOLEAN :
          LET nodes == rendering.nodes
              free == { i \in 1..Len(nodes) : nodes[i].fx = Null }
              pushed == IF everyNode \/ free = {} THEN 1..Len(nodes)
                        ELSE { CHOOSE i \in free : \A j \in free : i <= j }
          IN  rendering' = [ rendering EXCEPT
                               !.ticks = @ + 1,
                               !.nodes = [ i \in 1..Len(nodes) |->
                                             tickNode(nodes[i],
                                                      IF i \in pushed THEN delta
                                                      ELSE << 0, 0 >>) ] ]
    /\ UNCHANGED << surface, graph, svg, body, numRenders, builderVars, clickVars, layoutVars, tooltipVars >>

\* _buildTooltipContent(nodeData), without a citation: the node's context,
\* else its label, else its id.
buildTooltipContent(nodeData) ==
    IF Get(nodeData, "context") \notin {Undefined, Null} THEN nodeData.context
    ELSE IF Get(nodeData, "label") \notin {Undefined, Null} THEN nodeData.label
    ELSE nodeData.id

\* _calculateTooltipPositionFromEvent(event), event being << pageX, pageY >>
calculateTooltipPositionFromEvent(event) == << event[1] + 12, event[2] + 12 >>

\* The style and content _createTooltip gives the tooltip.
CreatedTooltip ==
    [ html |-> Undefined, at |-> <<>>, opacity |-> "0", pointerEvents |-> "none" ]

\* showTooltip(event, d) of _setupTooltip
showTooltip(element, event, d) ==
    [ element EXCEPT !.html = buildTooltipContent(d),
                     !.at = calculateTooltipPositionFromEvent(event),
                     !.opacity = "0.95" ]

\* hideTooltip() of _setupTooltip
hideTooltip(element) == [ element EXCEPT !.opacity = "0" ]

\* Where the cursor may be on the page while it is over a label, and where
\* it may be as it comes onto one, at its edge.
PagePoints == { << 100, 100 >>, << 130, 90 >> }
EdgePoints == { << 100, 100 >> }

\* render(data) from simulation.stop() to its end, but for the stop.
RenderFinish_LeavesRunning ==
    /\ InRender
    /\ rendering.ticks = MaxTicks
    /\ svg' = << Positioned(svg[1], rendering.nodes) >>
    /\ body' = Append(body, Tooltip)
    /\ rendering' = [ data |-> rendering.data, nodes |-> rendering.nodes,
                      links |-> rendering.links, ticks |-> rendering.ticks,
                      status |-> "done", tooltip |-> CreatedTooltip, over |-> 0 ]
    /\ UNCHANGED << surface, graph, numRenders, builderVars, clickVars, layoutVars, tooltipVars >>

\* render(data) from simulation.stop() to its end; its tooltip starts
\* hidden, with the cursor over no label (over = 0).
RenderFinish ==
    /\ InRender
    /\ rendering.ticks = MaxTicks
    /\ graph' = [ graph EXCEPT !.simulation = "stopped" ]
    /\ svg' = << Positioned(svg[1], rendering.nodes) >>
    /\ body' = Append(body, Tooltip)
    /\ rendering' = [ data |-> rendering.data, nodes |-> rendering.nodes,
                      links |-> rendering.links, ticks |-> rendering.ticks,
                      status |-> "done", tooltip |-> CreatedTooltip, over |-> 0 ]
    /\ UNCHANGED << surface, numRenders, builderVars, clickVars, layoutVars, tooltipVars >>

Rendered == rendering # Null /\ rendering.status = "done"

\* "mouseenter" on the .node-label of a node
MouseEnterLabel ==
    /\ Rendered
    /\ rendering.over = 0
    /\ \E i \in 1..Len(rendering.nodes), event \in EdgePoints :
          rendering' = [ rendering EXCEPT
                           !.tooltip = showTooltip(@, event, rendering.nodes[i]),
                           !.over = i ]
    /\ UNCHANGED << surface, graph, svg, body, numRenders, builderVars, clickVars, layoutVars, tooltipVars >>

\* "mousemove" on the .node-label the cursor is over
MouseMoveLabel ==
    /\ Rendered
    /\ rendering.over # 0
    /\ \E event \in PagePoints :
          /\ calculateTooltipPositionFromEvent(event) # rendering.tooltip.at
          /\ rendering' = [ rendering EXCEPT
                              !.tooltip.at = calculateTooltipPositionFromEvent(event) ]
    /\ UNCHANGED << surface, graph, svg, body, numRenders, builderVars, clickVars, layoutVars, tooltipVars >>

\* "mouseleave" on the .node-label the cursor is over
MouseLeaveLabel ==
    /\ Rendered
    /\ rendering.over # 0
    /\ rendering' = [ rendering EXCEPT !.tooltip = hideTooltip(@), !.over = 0 ]
    /\ UNCHANGED << surface, graph, svg, body, numRenders, builderVars, clickVars, layoutVars, tooltipVars >>

NextGraph ==
    \/ NewGraph
    \/ Clear
    \/ RenderStart
    \/ Tick
    \/ RenderFinish
    \/ MouseEnterLabel
    \/ MouseMoveLabel
    \/ MouseLeaveLabel

SpecGraph == InitGraph /\ [][NextGraph]_vars

(***************************************************************************)
(* Properties of the renderer                                              *)
(***************************************************************************)

\* How many of the elements are drawn between the nodes source and target.
Drawn(elements, source, target) ==
    Cardinality({ i \in 1..Len(elements) :
                    elements[i].source = source /\ elements[i].target = target })

\* C14: during render, a link whose source or target id is not the id of a
\* node in data.nodes is dropped and not drawn, every other link is drawn
\* exactly once (one line and one edge badge), and render raises no error
\* because of the unknown id.
C14_UnknownLinksDropped ==
    (rendering # Null /\ surface.measures)
        => LET data == rendering.data
               root == svg[1]
               known(id) == \E n \in 1..Len(data.nodes) : data.nodes[n].id = id
           IN  /\ rendering.status # "threw"
               /\ Len(svg) = 1
               /\ Len(root.lines) = Len(root.edgeBadges)
               /\ \A i \in 1..Len(data.links) :
                     LET link == data.links[i]
                         given == Cardinality({ j \in 1..Len(data.links) :
                                                  data.links[j] = link })
                         expected == IF known(link.source) /\ known(link.target)
                                     THEN given ELSE 0
                     IN  /\ Drawn(root.lines, link.source, link.target) = expected
                         /\ Drawn(root.edgeBadges, link.source, link.target) = expected
               /\ \A j \in 1..Len(root.lines) :
                     \E i \in 1..Len(data.links) :
                         /\ data.links[i].source = root.lines[j].source
                         /\ data.links[i].target = root.lines[j].target

\* A finished render of four links, two of them with an unknown end, that
\* drew two lines.
C14_Witness ==
    /\ rendering # Null
    /\ rendering.status = "done"
    /\ Len(rendering.data.links) = 4
    /\ Len(svg) = 1
    /\ Len(svg[1].lines) = 2
    /\ Len(svg[1].edgeBadges) = 2

\* C15 as stated: when the rendering surface cannot measure text, node
\* sizing uses an estimated fallback width (wider than an empty label's for
\* a label that has characters) and the render still completes with every
\* node sized and positioned; a measurement failure never aborts the render.
C15_Original ==
    (rendering # Null /\ ~surface.measures)
        => /\ rendering.status # "threw"
           /\ \A i \in 1..Len(rendering.nodes) :
                 LET node == rendering.nodes[i]
                     empty == calculateNodeDimensions(surface,
                                  [node EXCEPT !.label = Str(<<>>)])
                 IN  /\ {"shellWidth", "x", "y"} \subseteq DOMAIN node
                     /\ node.shellWidth > empty.shellWidth

\* C16 as stated: after any number of clear() + render(data) cycles the
\* elements that exist are exactly those of a single render(data) on a fresh
\* surface (one root group in the svg, with a line and an edge badge per
\* processed link and a group per node), including exactly one tooltip
\* element; and clear() on an already empty surface changes nothing.
C16_Original ==
    /\ (rendering # Null /\ rendering.status = "done")
          => /\ Len(svg) = 1
             /\ Len(svg[1].lines) = Len(rendering.links)
             /\ Len(svg[1].edgeBadges) = Len(rendering.links)
             /\ Len(svg[1].nodes) = Len(rendering.nodes)
             /\ body = << Tooltip >>
    /\ (rendering = Null /\ numRenders = 0) => (svg = <<>> /\ body = <<>>)

\* C20: the focus node (the node flagged isFocus, else the first node) is
\* placed at the canvas centre (width / 2, height / 2) by layout and stays
\* exactly there through every relaxation step and in the final rendered
\* positions; only related nodes move.
C20_FocusStaysAtCentre ==
    (rendering # Null /\ rendering.status \in {"ticking", "done"}
                      /\ rendering.nodes # <<>>)
        => LET nodes == rendering.nodes
               flagged == { i \in 1..Len(nodes) : nodes[i].isFocus = True }
               focus == IF flagged = {} THEN 1
                        ELSE CHOOSE i \in flagged : \A j \in flagged : i <= j
               centre == << graph.options.width \div 2, graph.options.height \div 2 >>
           IN  /\ << nodes[focus].x, nodes[focus].y >> = centre
               /\ rendering.status = "done"
                      => svg[1].nodes[focus].transform = centre

\* A finished render in which the simulation has moved a related node off
\* its initial place while the focus node, second in data.nodes, is drawn at
\* the centre.
C20_Witness ==
    /\ rendering # Null
    /\ rendering.status = "done"
    /\ rendering.ticks = MaxTicks
    /\ Len(rendering.nodes) = 3
    /\ rendering.nodes[2].isFocus = True
    /\ rendering.nodes[1].x # graph.options.width \div 2
    /\ svg[1].nodes[2].transform
           = << graph.options.width \div 2, graph.options.height \div 2 >>

\* The same for data without a node flagged isFocus: its first node is the
\* one kept at the centre.
C20_WitnessFirstNode ==
    /\ rendering # Null
    /\ rendering.status = "done"
    /\ \A i \in 1..Len(rendering.nodes) : rendering.nodes[i].isFocus # True
    /\ Len(rendering.nodes) = 2
    /\ rendering.nodes[1].fx = Fixed(graph.options.width \div 2)
    /\ rendering.nodes[2].fx = Null

\* A node's shell lies within the canvas less its margin.
ShellInBounds(node, options) ==
    /\ node.x - node.shellHalfWidth >= options.canvasMargin
    /\ node.x + node.shellHalfWidth <= options.width - options.canvasMargin
    /\ node.y - node.shellHalfHeight >= options.canvasMargin
    /\ node.y + node.shellHalfHeight <= options.height - options.canvasMargin

\* Each shell alone fits inside the canvas less its margin.
SaneCanvas(nodes, options) ==
    \A i \in 1..Len(nodes) :
        /\ nodes[i].shellWidth <= options.width - 2 * options.canvasMargin
        /\ 2 * nodes[i].shellHalfHeight <= options.height - 2 * options.canvasMargin

\* C12 as stated, for render of rraGraph.js: after layout every node's shell
\* bounding box lies within [canvasMargin, width - canvasMargin] x
\* [canvasMargin, height - canvasMargin], for every canvas on which each
\* shell alone fits and every number of related nodes from 1 to 8.
C12_Original ==
    ( /\ rendering # Null
      /\ surface.measures
      /\ rendering.status \in {"ticking", "done"}
      /\ rendering.ticks = 0
      /\ Len(rendering.nodes) \in 2..9
      /\ SaneCanvas(rendering.nodes, graph.options) )
        => \A i \in 1..Len(rendering.nodes) :
               ShellInBounds(rendering.nodes[i], graph.options)

\* C21: render runs the relaxation for a fixed number of steps regardless
\* of convergence and then stops it; once render has returned, no node
\* position changes again until the next render: the step that ends render
\* comes after exactly MaxTicks steps and leaves the simulation stopped, and
\* every later step on the rendered graph leaves the simulation stopped and
\* the nodes and their elements where they are.
C21_RelaxationStops ==
    [][ /\ (InRender /\ rendering' # Null /\ rendering'.status = "done")
              => /\ rendering.ticks = MaxTicks
                 /\ graph'.simulation = "stopped"
        /\ (Rendered /\ rendering' # Null)
              => /\ rendering'.status = "done"
                 /\ rendering'.ticks = MaxTicks
                 /\ rendering'.nodes = rendering.nodes
                 /\ svg' = svg
                 /\ graph'.simulation = "stopped" ]_vars

\* A finished render whose simulation moved a related node in each of its
\* steps, with the cursor since brought over that node's label.
C21_Witness ==
    /\ Rendered
    /\ rendering.ticks = MaxTicks
    /\ graph.simulation = "stopped"
    /\ Len(rendering.nodes) = 2
    /\ rendering.nodes[2].fx = Null
    /\ rendering.nodes[2].x
           = initializePositions(graph.options, rendering.nodes)[2].x + 40 * MaxTicks
    /\ rendering.over = 2
    /\ rendering.tooltip.opacity = "0.95"

\* C24 as stated, for the tooltip of rraGraph.js: after a hover-leave from
\* a node the hide is scheduled after a fixed delay rather than applied at
\* once, so the step in which the cursor leaves a label leaves the tooltip
\* as visible as it was.
C24_Original ==
    [][ (Rendered /\ rendering' # Null /\ rendering.over # 0 /\ rendering'.over = 0)
            => rendering'.tooltip.opacity = rendering.tooltip.opacity ]_vars

(***************************************************************************)
(* RraGraph._layout (the radial layout without a simulation)               *)
(*                                                                         *)
(* Lengths are exact fractions [n |-> numerator, d |-> denominator] in     *)
(* lowest terms with d > 0; Infinity has d = 0.                            *)
(***************************************************************************)

RECURSIVE Gcd(_, _)
Gcd(a, b) == IF b = 0 THEN a ELSE Gcd(b, a % b)

Abs(i) == IF i < 0 THEN -i ELSE i

\* n / d for d # 0
Frac(n, d) ==
    LET g == Gcd(Abs(n), Abs(d))
        sign == IF d < 0 THEN -1 ELSE 1
    IN  [ n |-> sign * (Abs(n) \div g) * (IF n < 0 THEN -1 ELSE 1),
          d |-> Abs(d) \div g ]

Whole(i) == [n |-> i, d |-> 1]

Infinity == [n |-> 1, d |-> 0]

isFinite(a) == a.d # 0

Less(a, b) == a.n * b.d < b.n * a.d

Plus(a, b) == Frac(a.n * b.d + b.n * a.d, a.d * b.d)

Minus(a, b) == Frac(a.n * b.d - b.n * a.d, a.d * b.d)

Times(a, b) == Frac(a.n * b.n, a.d * b.d)

Over(a, b) == Frac(a.n * b.d, a.d * b.n)

MathMin(a, b) == IF Less(b, a) THEN b ELSE a

MathMax(a, b) == IF Less(a, b) THEN b ELSE a

MathAbs(a) == [a EXCEPT !.n = Abs(@)]

Negated(a) == [a EXCEPT !.n = -@]

\* const EPS = 1e-6
EPS == [n |-> 1, d |-> 1000000]

\* options.radius
radius == 20

\* node.shellHalfWidth ?? radius, node.shellHalfHeight ?? radius
halfWidthOf(node) ==
    IF "shellHalfWidth" \in DOMAIN node THEN Whole(node.shellHalfWidth) ELSE Whole(radius)

halfHeightOf(node) ==
    IF "shellHalfHeight" \in DOMAIN node THEN Whole(node.shellHalfHeight) ELSE Whole(radius)

\* _distanceToRectEdge(halfWidth, halfHeight, dx, dy)
distanceToRectEdge(halfWidth, halfHeight, dx, dy) ==
    LET tx == IF Less(EPS, MathAbs(dx)) THEN Over(halfWidth, MathAbs(dx)) ELSE Infinity
        ty == IF Less(EPS, MathAbs(dy)) THEN Over(halfHeight, MathAbs(dy)) ELSE Infinity
    IN  IF ~isFinite(tx) /\ ~isFinite(ty) THEN Whole(0) ELSE MathMin(tx, ty)

\* _maxCenterDistanceForNode(cx, cy, { x: dx, y: dy }, node)
maxCenterDistanceForNode(options, cx, cy, dir, node) ==
    LET halfWidth == halfWidthOf(node)
        halfHeight == halfHeightOf(node)
        alongX ==
            IF Less(EPS, MathAbs(dir.x))
            THEN IF dir.x.n > 0
                 THEN Over(Minus(Minus(Whole(options.width - options.canvasMargin),
                                       halfWidth), cx), dir.x)
                 ELSE Over(Minus(Plus(Whole(options.canvasMargin), halfWidth), cx), dir.x)
            ELSE Infinity
        alongY ==
            IF Less(EPS, MathAbs(dir.y))
            THEN IF dir.y.n > 0
                 THEN Over(Minus(Minus(Whole(options.height - options.canvasMargin),
                                       halfHeight), cy), dir.y)
                 ELSE Over(Minus(Plus(Whole(options.canvasMargin), halfHeight), cy), dir.y)
            ELSE Infinity
        maxR == MathMin(alongX, alongY)
        finite == IF isFinite(maxR) THEN maxR
                  ELSE Over(MathMin(Whole(options.width), Whole(options.height)), Whole(2))
    IN  MathMax(Whole(0), finite)

\* (Math.cos(theta), Math.sin(theta)) for theta = startAngle + 2 * PI *
\* index / N, from the direction of startAngle, for the N for which the
\* step is a whole number of quarter turns. Math.cos(-PI / 2) is 6e-17 in
\* floating point and 0 here; both are below EPS.
RECURSIVE QuarterTurns(_, _)
QuarterTurns(dir, turns) ==
    IF turns = 0 THEN dir
    ELSE QuarterTurns([x |-> Negated(dir.y), y |-> dir.x], turns - 1)

directionOf(start, index, N) == QuarterTurns(start, ((4 * index) \div N) % 4)

\* nodeLayoutInfo of _layout: for each related node its direction, offsets
\* and limits.
nodeLayoutInfo(options, nodes) ==
    LET cx == Frac(options.width, 2)
        cy == Frac(options.height, 2)
        focus == nodes[focusOf(nodes)]
        related == relatedOf(nodes)
        N == Len(related)
    IN  [ k \in 1..N |->
            LET node == nodes[related[k]]
                dir == directionOf(options.startAngle, k - 1, N)
                sourceOffset == distanceToRectEdge(halfWidthOf(focus), halfHeightOf(focus),
                                                   dir.x, dir.y)
                targetOffset == distanceToRectEdge(halfWidthOf(node), halfHeightOf(node),
                                                   Negated(dir.x), Negated(dir.y))
                maxCenterDistance == maxCenterDistanceForNode(options, cx, cy, dir, node)
            IN  [ node |-> related[k],
                  dir |-> dir,
                  sourceOffset |-> sourceOffset,
                  targetOffset |-> targetOffset,
                  maxCenterDistance |-> maxCenterDistance,
                  maxEdgeLength |->
                      MathMax(Whole(0),
                              Minus(Minus(maxCenterDistance, sourceOffset), targetOffset)) ] ]

RECURSIVE edgeLengthLimit(_)
edgeLengthLimit(infos) ==
    IF infos = <<>> THEN Infinity
    ELSE MathMin(edgeLengthLimit(SubSeq(infos, 1, Len(infos) - 1)),
                 infos[Len(infos)].maxEdgeLength)

\* A target edge length that is the preferred one whatever the limits.
targetEdgeLength_Preferred(infos) == Whole(radius * 6)

\* targetEdgeLength of _layout
targetEdgeLength(infos) ==
    MathMax(Whole(0), MathMin(edgeLengthLimit(infos), Whole(radius * 6)))

\* centerDistance of _layout for one related node
centerDistance(infos, k) ==
    MathMin(infos[k].maxCenterDistance,
            Plus(Plus(targetEdgeLength(infos), infos[k].sourceOffset),
                 infos[k].targetOffset))

\* _layout(nodes): the nodes with the x and y it gives them
layout(options, nodes) ==
    IF nodes = <<>> THEN <<>>
    ELSE LET cx == Frac(options.width, 2)
             cy == Frac(options.height, 2)
             infos == nodeLayoutInfo(options, nodes)
         IN  [ i \in 1..Len(nodes) |->
                 IF i = focusOf(nodes)
                 THEN WithFields(nodes[i], [x |-> cx, y |-> cy])
                 ELSE LET k == CHOOSE k \in 1..Len(infos) : infos[k].node = i
                          distance == centerDistance(infos, k)
                      IN  WithFields(nodes[i],
                              [ x |-> Plus(cx, Times(distance, infos[k].dir.x)),
                                y |-> Plus(cy, Times(distance, infos[k].dir.y)) ]) ]

\* How many nodes the data given to _layout has at most.
MaxNodes == 5

\* The numbers of related nodes whose directions are exact here.
ExactCounts == {0, 1, 2, 4}

\* 12 o'clock (startAngle = -PI / 2, the default) and the direction with
\* cosine 3/5 and sine 4/5.
StartAngles ==
    { [x |-> Whole(0), y |-> Whole(-1)],
      [x |-> Frac(3, 5), y |-> Frac(4, 5)] }

\* The default canvas, the canvas of RraComponent and a 200 x 200 canvas,
\* each with either start angle.
Canvases ==
    { [width |-> size[1], height |-> size[1], canvasMargin |-> size[2],
       startAngle |-> start] :
        size \in { << 600, 20 >>, << 400, 60 >>, << 200, 20 >> },
        start \in StartAngles }

\* Sized nodes: the focus node, a related node with a short label, one
\* whose shell is as wide as the 200 x 200 canvas allows, and one that has
\* not been sized.
SizedNodes ==
    { [t |-> "object", isFocus |-> True, shellHalfWidth |-> 40, shellHalfHeight |-> 20],
      [t |-> "object", isFocus |-> False, shellHalfWidth |-> 50, shellHalfHeight |-> 20],
      [t |-> "object", isFocus |-> False, shellHalfWidth |-> 80, shellHalfHeight |-> 20],
      [t |-> "object", isFocus |-> False] }

InitLayout ==
    /\ BuilderIdle
    /\ ClickIdle
    /\ GraphIdle
    /\ canvas \in Canvases
    /\ sized = <<>>
    /\ laidOut = FALSE
    /\ TooltipIdle

\* The sizing loop of render reaches one more node of data.nodes.
SizeNode ==
    /\ ~laidOut
    /\ Len(sized) < MaxNodes
    /\ \E node \in SizedNodes : sized' = Append(sized, node)
    /\ UNCHANGED << canvas, laidOut, builderVars, clickVars, graphVars, tooltipVars >>

\* this._layout(data.nodes)
Layout ==
    /\ ~laidOut
    /\ Len(relatedOf(sized)) \in ExactCounts
    /\ sized' = layout(canvas, sized)
    /\ laidOut' = TRUE
    /\ UNCHANGED << canvas, builderVars, clickVars, graphVars, tooltipVars >>

NextLayout ==
    \/ SizeNode
    \/ Layout

SpecLayout == InitLayout /\ [][NextLayout]_vars

(***************************************************************************)
(* Properties of _layout                                                   *)
(***************************************************************************)

\* The distance of a laid out node from the canvas centre along its
\* direction (a unit vector).
CentreDistance(node, info) ==
    Plus(Times(Minus(node.x, Frac(canvas.width, 2)), info.dir.x),
         Times(Minus(node.y, Frac(canvas.height, 2)), info.dir.y))

\* The visible length of the edge to a laid out node: its centre distance
\* less the two shell offsets.
VisibleLength(node, info) ==
    Minus(Minus(CentreDistance(node, info), info.sourceOffset), info.targetOffset)

\* min(6 * radius, the smallest maxEdgeLength over all related nodes)
CommonLength(infos) ==
    LET smallest == CHOOSE a \in { infos[k].maxEdgeLength : k \in 1..Len(infos) } :
                        \A k \in 1..Len(infos) : ~Less(infos[k].maxEdgeLength, a)
    IN  MathMin(Whole(6 * radius), smallest)

\* C13: after _layout, all related nodes that were not clamped to their own
\* maxCenterDistance have the same visible edge length (centre distance to
\* the focus minus the focus shell offset and the node's own shell offset
\* along the edge direction), and that common length is min(6 * radius, the
\* smallest maxEdgeLength over all related nodes).
C13_EdgeLengthUniform ==
    (laidOut /\ Len(relatedOf(sized)) > 0)
        => LET infos == nodeLayoutInfo(canvas, sized)
               common == CommonLength(infos)
           IN  \A k \in 1..Len(infos) :
                   LET node == sized[infos[k].node]
                       clamped == /\ CentreDistance(node, infos[k])
                                        = infos[k].maxCenterDistance
                                  /\ Less(VisibleLength(node, infos[k]), common)
                   IN  ~clamped => VisibleLength(node, infos[k]) = common

\* Four related nodes around a direction that is not along an axis, whose
\* common edge length is set by the tightest of them and is shorter than
\* 6 * radius.
C13_Witness ==
    /\ laidOut
    /\ Len(relatedOf(sized)) = 4
    /\ canvas.startAngle.x # Whole(0)
    /\ LET infos == nodeLayoutInfo(canvas, sized)
       IN  /\ Less(Whole(0), CommonLength(infos))
           /\ Less(CommonLength(infos), Whole(6 * radius))
           /\ \E k \in 1..4 : Less(CommonLength(infos), infos[k].maxEdgeLength)
           /\ \A k \in 1..4 :
                  VisibleLength(sized[infos[k].node], infos[k]) = CommonLength(infos)

\* _layout keeps every shell within the canvas less its margin, on a canvas
\* on which each shell alone fits.
LayoutInBounds ==
    ( /\ laidOut
      /\ \A i \in 1..Len(sized) :
            /\ 2 * halfWidthOf(sized[i]).n <= canvas.width - 2 * canvas.canvasMargin
            /\ 2 * halfHeightOf(sized[i]).n <= canvas.height - 2 * canvas.canvasMargin )
        => \A i \in 1..Len(sized) :
               LET node == sized[i]
               IN  /\ ~Less(Minus(node.x, halfWidthOf(node)), Whole(canvas.canvasMargin))
                   /\ ~Less(Whole(canvas.width - canvas.canvasMargin),
                            Plus(node.x, halfWidthOf(node)))
                   /\ ~Less(Minus(node.y, halfHeightOf(node)), Whole(canvas.canvasMargin))
                   /\ ~Less(Whole(canvas.height - canvas.canvasMargin),
                            Plus(node.y, halfHeightOf(node)))

(***************************************************************************)
(* RraGraph._setupTooltip of the radial layout: the tooltip is shown and   *)
(* hidden by d3 transitions.  selection.interrupt() ends the active        *)
(* transition of the element and cancels its pending ones, neither of      *)
(* which then gets its "end" event; a transition that starts does the same *)
(* to those created before it.                                             *)
(***************************************************************************)

\* const MOUSEOUT_DELAY, const TOOLTIP_LEAVE_DELAY
MOUSEOUT_DELAY == 300
TOOLTIP_LEAVE_DELAY == 300

\* The nodes the tooltips are set up for, as laid out.
TipNodes ==
    << [ t |-> "object", id |-> Str(<< "A" >>), label |-> Str(<< "A", "c", "m", "e" >>),
         x |-> 200, y |-> 200 ],
       [ t |-> "object", id |-> Str(<< "b" >>), label |-> Str(<< "B", "e", "e" >>),
         context |-> Str(<< "C", "E", "O" >>), x |-> 200, y |-> 80 ] >>

\* How far down the page the <svg> may be.
SvgTops == { 0, 40 }

\* _calculateTooltipPosition(svg, nodeData, nodeRadius): the rectangle of
\* the svg plus the page offset is where the svg is on the page, its left
\* taken as 0.
calculateTooltipPosition(top, nodeData, nodeRadius) ==
    << nodeData.x + nodeRadius + 15, top + nodeData.y - 10 >>

\* The closure of _setupTooltip.
Closure == [ tooltip |-> tooltip, currentNodeId |-> currentNodeId,
             transitions |-> transitions ]

\* tooltip.transition() with what it is to do
Transition(kind, delay) == [ kind |-> kind, delay |-> delay, phase |-> "pending" ]

\* cancelPendingHide without tooltip.interrupt()
cancelPendingHide_NoInterrupt(c) ==
    [ c EXCEPT !.tooltip.pointerEvents = "auto" ]

\* cancelPendingHide()
cancelPendingHide(c) ==
    [ c EXCEPT !.transitions = <<>>, !.tooltip.pointerEvents = "auto" ]

\* hideTooltip(delay) of the radial layout without .interrupt()
hideTooltipAfter_NoInterrupt(c, delay) ==
    [ c EXCEPT !.transitions = Append(@, Transition("hide", delay)) ]

\* hideTooltip(delay) of the radial layout
hideTooltipAfter(c, delay) ==
    [ c EXCEPT !.transitions = << Transition("hide", delay) >> ]

\* The "mouseover" handler of the nodes, were it to position the tooltip
\* every time.
mouseoverNode_AlwaysPositions(c, top, overLabel, d) ==
    IF ~overLabel THEN c
    ELSE LET cancelled == cancelPendingHide(c)
         IN  [ cancelled EXCEPT
                 !.tooltip.html = buildTooltipContent(d),
                 !.tooltip.at = calculateTooltipPosition(top, d, shellHeight \div 2),
                 !.currentNodeId = d.id,
                 !.transitions = Append(@, Transition("show", 0)) ]

\* The "mouseover" handler of the nodes; overLabel is what shouldShow
\* returns.
mouseoverNode(c, top, overLabel, d) ==
    IF ~overLabel THEN c
    ELSE LET cancelled == cancelPendingHide(c)
             differs == cancelled.currentNodeId # d.id
         IN  [ cancelled EXCEPT
                 !.tooltip.html = buildTooltipContent(d),
                 !.tooltip.at = IF differs
                                THEN calculateTooltipPosition(top, d, shellHeight \div 2)
                                ELSE @,
                 !.currentNodeId = IF differs THEN d.id ELSE @,
                 !.transitions = Append(@, Transition("show", 0)) ]

\* The "mouseover" handler of the tooltip
mouseoverTooltip(c) ==
    [ cancelPendingHide(c) EXCEPT !.tooltip.opacity = "0.9",
                                  !.tooltip.pointerEvents = "auto" ]

\* The closure after a handler has run.
Becomes(c) ==
    /\ tooltip' = c.tooltip
    /\ currentNodeId' = c.currentNodeId
    /\ transitions' = c.transitions

InitTooltip ==
    /\ BuilderIdle
    /\ ClickIdle
    /\ GraphIdle
    /\ LayoutIdle
    /\ tooltip = [ html |-> Undefined, at |-> <<>>, opacity |-> "0",
                   pointerEvents |-> "auto" ]
    /\ currentNodeId = Null
    /\ transitions = <<>>
    /\ pointer = [ on |-> "away", node |-> 0 ]
    /\ svgTop \in SvgTops

\* The cursor comes onto a node, onto its label or the rest of its shell.
NodeMouseOver ==
    /\ pointer.on = "away"
    /\ \E i \in 1..Len(TipNodes), part \in {"label", "shell"} :
          /\ pointer' = [ on |-> part, node |-> i ]
          /\ Becomes(mouseoverNode(Closure, svgTop, part = "label", TipNodes[i]))
    /\ UNCHANGED << svgTop, builderVars, clickVars, graphVars, layoutVars >>

\* The cursor leaves the node it is on.
NodeMouseOut ==
    /\ pointer.on \in {"label", "shell"}
    /\ pointer' = [ on |-> "away", node |-> 0 ]
    /\ Becomes(hideTooltipAfter(Closure, MOUSEOUT_DELAY))
    /\ UNCHANGED << svgTop, builderVars, clickVars, graphVars, layoutVars >>

\* The cursor comes onto the tooltip, which takes pointer events.
TooltipMouseOver ==
    /\ pointer.on = "away"
    /\ tooltip.pointerEvents = "auto"
    /\ pointer' = [ on |-> "tooltip", node |-> 0 ]
    /\ Becomes(mouseoverTooltip(Closure))
    /\ UNCHANGED << svgTop, builderVars, clickVars, graphVars, layoutVars >>

\* The cursor leaves the tooltip.
TooltipMouseOut ==
    /\ pointer.on = "tooltip"
    /\ pointer' = [ on |-> "away", node |-> 0 ]
    /\ Becomes(hideTooltipAfter(Closure, TOOLTIP_LEAVE_DELAY))
    /\ UNCHANGED << svgTop, builderVars, clickVars, graphVars, layoutVars >>

\* The delay of a pending transition runs out: it becomes the active one,
\* and those created before it are gone.
TransitionStarts ==
    /\ \E k \in 1..Len(transitions) :
          /\ transitions[k].phase = "pending"
          /\ transitions' = << [ transitions[k] EXCEPT !.phase = "active" ] >>
                                \o SubSeq(transitions, k + 1, Len(transitions))
          /\ tooltip' = [ tooltip EXCEPT !.opacity =
                 IF @ = (IF transitions[k].kind = "hide" THEN "0" ELSE "0.9")
                 THEN @ ELSE "between" ]
    /\ UNCHANGED << currentNodeId, pointer, svgTop, builderVars, clickVars, graphVars, layoutVars >>

\* The active transition runs to its end; the "end" listener of a hide
\* runs.
TransitionEnds ==
    /\ transitions # <<>>
    /\ transitions[1].phase = "active"
    /\ transitions' = Tail(transitions)
    /\ IF transitions[1].kind = "hide"
       THEN /\ tooltip' = [ tooltip EXCEPT !.opacity = "0", !.pointerEvents = "none" ]
            /\ currentNodeId' = Null
       ELSE /\ tooltip' = [ tooltip EXCEPT !.opacity = "0.9", !.pointerEvents = "auto" ]
            /\ UNCHANGED currentNodeId
    /\ UNCHANGED << pointer, svgTop, builderVars, clickVars, graphVars, layoutVars >>

\* The page is laid out again and the <svg> moves.
Reflow ==
    /\ \E top \in SvgTops \ { svgTop } : svgTop' = top
    /\ UNCHANGED << tooltip, currentNodeId, transitions, pointer,
                    builderVars, clickVars, graphVars, layoutVars >>

NextTooltip ==
    \/ NodeMouseOver
    \/ NodeMouseOut
    \/ TooltipMouseOver
    \/ TooltipMouseOut
    \/ TransitionStarts
    \/ TransitionEnds
    \/ Reflow

SpecTooltip == InitTooltip /\ [][NextTooltip]_vars

(***************************************************************************)
(* Properties of the tooltip                                               *)
(***************************************************************************)

\* The hides d3 holds for the tooltip.
Hides(trs) == { k \in 1..Len(trs) : trs[k].kind = "hide" }

\* The step is a hover-leave, from a node or from the tooltip.
HoverLeave == pointer.on # "away" /\ pointer'.on = "away"

\* The step is a hover-enter on a label, or a hover on the tooltip.
HoverEnter == pointer.on = "away" /\ pointer'.on \in {"label", "tooltip"}

\* C22: for any sequence of hover-enter and hover-leave events on nodes and
\* on the tooltip, at most one hide is pending for the tooltip at any time:
\* scheduling a hide cancels the previously pending one, so only the most
\* recently scheduled hide can complete.
C22_OneHidePending ==
    [][ /\ Cardinality(Hides(transitions')) <= 1
        /\ HoverLeave => transitions' = << Transition("hide", MOUSEOUT_DELAY) >> ]_vars

\* The cursor is on the shell of a node, which it came onto while the hide
\* of an earlier leave was pending and is pending still: the leave to come
\* schedules a hide in place of it.
C22_Witness ==
    /\ pointer.on = "shell"
    /\ transitions = << Transition("hide", MOUSEOUT_DELAY) >>
    /\ currentNodeId = TipNodes[1].id
    /\ tooltip.opacity = "0.9"

\* C23: if a hover-enter on a node's label region, or a hover on the
\* tooltip itself, occurs while a hide is pending, that hide never takes
\* effect: the tooltip stays shown and its active target is not reset until
\* a later hover-leave schedules a new hide and that hide's delay runs out.
\* The enter leaves no hide behind and the tooltip as shown as it was; while
\* the cursor is on a label or on the tooltip there is no hide; and the
\* tooltip becomes hidden, or its target none, only as a hide ends.
C23_EnterCancelsHide ==
    [][ /\ HoverEnter
            => /\ Hides(transitions') = {}
               /\ tooltip.opacity # "0" => tooltip'.opacity # "0"
               /\ currentNodeId # Null => currentNodeId' # Null
        /\ pointer'.on \in {"label", "tooltip"} => Hides(transitions') = {}
        /\ ( \/ (currentNodeId # Null /\ currentNodeId' = Null)
             \/ (tooltip.opacity # "0" /\ tooltip'.opacity = "0") )
            => /\ transitions # <<>>
               /\ transitions[1] = [ Transition("hide", MOUSEOUT_DELAY)
                                       EXCEPT !.phase = "active" ]
               /\ transitions' = <<>>
               /\ pointer.on \in {"away", "shell"} ]_vars

\* The cursor is on the tooltip of node A, shown in full: it left the label
\* of A, which scheduled a hide, and came onto the tooltip before that hide
\* had ended, and the hide is gone.
C23_Witness ==
    /\ pointer.on = "tooltip"
    /\ currentNodeId = TipNodes[1].id
    /\ tooltip.html = TipNodes[1].label
    /\ tooltip.opacity = "0.9"
    /\ transitions = <<>>

\* Where the "mouseover" handler would put the tooltip for the node the
\* cursor comes onto.
PositionFor(i) == calculateTooltipPosition(svgTop, TipNodes[i], shellHeight \div 2)

MaxRequests == 2
MaxDeliveries == 2
MaxCallbacks == 2

\* The related entity of PageEntities of that name.
EntityNamed(name) == CHOOSE e \in PageEntities : e.entityName = Str(name)

\* What getRelationships and createRelationships return: nothing, a record
\* without RelationshipJson__c, and records with the envelopes of two
\* researches.
Deliverable ==
    { Undefined,
      RecordOf(Undefined),
      RecordOf([EmptyEnvelope EXCEPT !.relatedEntities.items =
                    << EntityNamed(<< "a" >>) >>]),
      RecordOf([EmptyEnvelope EXCEPT !.relatedEntities.items =
                    << EntityNamed(<< "e" >>), EntityNamed(<< "c" >>) >>]) }

\* getWiredRelationships(result): error is whether result.error is there
getWiredRelationships(c, error, data) ==
    IF error THEN [c EXCEPT !.isLoading = FALSE]
    ELSE [ loadRelationships(c, data) EXCEPT
             !.isLoading = IF data # Undefined THEN FALSE ELSE @ ]

\* updateRelationships after its await, and the catch and finally of
\* handleResearchButtonClick, were the synchronous path to leave
\* graphRendered alone.
resumeResearch_KeepsRendered(c, request) ==
    IF request.settled = "resolved" /\ ~request.async
    THEN [ loadRelationships(c, request.data) EXCEPT !.isLoading = FALSE ]
    ELSE [c EXCEPT !.isLoading = FALSE]

\* updateRelationships after its await, and the catch and finally of
\* handleResearchButtonClick
resumeResearch(c, request) ==
    IF request.settled = "resolved" /\ ~request.async
    THEN [ loadRelationships(c, request.data) EXCEPT !.graphRendered = FALSE,
                                                     !.isLoading = FALSE ]
    ELSE [c EXCEPT !.isLoading = FALSE]

\* renderedCallback() after await this.loadD3(), were it not to look at
\* what loadD3 returned.
resumeRenderedCallback_IgnoresLoadD3(c, rendered, loaded) ==
    IF ~c.graphRendered /\ c.graphData # Null
    THEN [ component |-> [c EXCEPT !.graphRendered = TRUE],
           renders |-> Append(rendered, c.graphData) ]
    ELSE [ component |-> c, renders |-> rendered ]

\* renderedCallback() after await this.loadD3(), which returned loaded
resumeRenderedCallback(c, rendered, loaded) ==
    IF loaded /\ ~c.graphRendered /\ c.graphData # Null
    THEN [ component |-> [c EXCEPT !.graphRendered = TRUE],
           renders |-> Append(rendered, c.graphData) ]
    ELSE [ component |-> c, renders |-> rendered ]

InitLoad ==
    /\ BuilderIdle
    /\ ClickIdle
    /\ GraphIdle
    /\ LayoutIdle
    /\ TooltipIdle

\* The wire adapter delivers: an error, nothing yet, or the data.
GetWiredRelationships ==
    /\ numDeliveries < MaxDeliveries
    /\ numDeliveries' = numDeliveries + 1
    /\ \/ component' = getWiredRelationships(component, TRUE, Undefined)
       \/ \E data \in Deliverable :
             component' = getWiredRelationships(component, FALSE, data)
    /\ UNCHANGED << navigations, confirmCall, clicks, renders, requests, numRequests,
                    d3Loaded, callbacks, builderVars, graphVars, layoutVars, tooltipVars >>

\* handleAsyncToggle(event)
HandleAsyncToggle ==
    /\ component' = [component EXCEPT !.useAsyncExecution = ~@]
    /\ UNCHANGED << navigations, confirmCall, clicks, renders, loadVars,
                    builderVars, graphVars, layoutVars, tooltipVars >>

\* handleResearchButtonClick(event) up to the await in updateRelationships
HandleResearchButtonClick ==
    /\ numRequests < MaxRequests
    /\ IF component.isLoading
       THEN UNCHANGED << component, requests, numRequests >>
       ELSE /\ component' = [component EXCEPT !.isLoading = TRUE]
            /\ requests' = Append(requests,
                                  [ async |-> component.useAsyncExecution,
                                    settled |-> "pending", data |-> Undefined ])
            /\ numRequests' = numRequests + 1
    /\ UNCHANGED << navigations, confirmCall, clicks, renders, numDeliveries,
                    d3Loaded, callbacks, builderVars, graphVars, layoutVars, tooltipVars >>

\* The Apex call of a research request returns or throws, and
\* handleResearchButtonClick(event) runs from its await to its end.
ResearchSettles ==
    /\ \E k \in 1..Len(requests) :
          /\ \E settled \in
                 { [requests[k] EXCEPT !.settled = "rejected"] }
                 \cup { [requests[k] EXCEPT !.settled = "resolved", !.data = data] :
                          data \in IF requests[k].async THEN { Undefined }
                                   ELSE Deliverable } :
                component' = resumeResearch(component, settled)
          /\ requests' = SubSeq(requests, 1, k - 1)
                             \o SubSeq(requests, k + 1, Len(requests))
    /\ UNCHANGED << navigations, confirmCall, clicks, renders, numRequests,
                    numDeliveries, d3Loaded, callbacks,
                    builderVars, graphVars, layoutVars, tooltipVars >>

Suspended == callbacks.loading + callbacks.loaded + callbacks.failed

\* renderedCallback() up to its await: loadD3 returns true at once when
\* d3Loaded, else it awaits loadScript.
RenderedCallbackStarts ==
    /\ Suspended < MaxCallbacks
    /\ callbacks' = IF d3Loaded THEN [callbacks EXCEPT !.loaded = @ + 1]
                    ELSE [callbacks EXCEPT !.loading = @ + 1]
    /\ UNCHANGED << component, navigations, confirmCall, clicks, renders, requests,
                    numRequests, numDeliveries, d3Loaded,
                    builderVars, graphVars, layoutVars, tooltipVars >>

\* loadD3() after await loadScript(this, D3), which returned or threw
LoadScriptSettles ==
    /\ callbacks.loading > 0
    /\ \/ /\ d3Loaded' = TRUE
          /\ callbacks' = [callbacks EXCEPT !.loading = @ - 1, !.loaded = @ + 1]
       \/ /\ callbacks' = [callbacks EXCEPT !.loading = @ - 1, !.failed = @ + 1]
          /\ UNCHANGED d3Loaded
    /\ UNCHANGED << component, navigations, confirmCall, clicks, renders, requests,
                    numRequests, numDeliveries,
                    builderVars, graphVars, layoutVars, tooltipVars >>

\* renderedCallback() after its await
RenderedCallbackResumes ==
    /\ \E loaded \in BOOLEAN :
          /\ IF loaded THEN callbacks.loaded > 0 ELSE callbacks.failed > 0
          /\ callbacks' = IF loaded THEN [callbacks EXCEPT !.loaded = @ - 1]
                          ELSE [callbacks EXCEPT !.failed = @ - 1]
          /\ LET after == resumeRenderedCallback(component, renders, loaded)
             IN  /\ component' = after.component
                 /\ renders' = after.renders
    /\ UNCHANGED << navigations, confirmCall, clicks, requests, numRequests,
                    numDeliveries, d3Loaded,
                    builderVars, graphVars, layoutVars, tooltipVars >>

NextLoad ==
    \/ GetWiredRelationships
    \/ HandleAsyncToggle
    \/ HandleResearchButtonClick
    \/ ResearchSettles
    \/ RenderedCallbackStarts
    \/ LoadScriptSettles
    \/ RenderedCallbackResumes

SpecLoad == InitLoad /\ [][NextLoad]_vars

(***************************************************************************)
(* Properties of loading and rendering                                     *)
(***************************************************************************)

\* C28 as stated: whenever loadRelationships installs new graph data,
\* whether from the wire adapter or from a synchronous research call, a
\* later renderedCallback renders that new data; the displayed graph never
\* stays on an older dataset once newer graph data has been loaded.  So
\* once the component holds its graph to be rendered, the graph last
\* rendered is the graph data it has.
C28_Original ==
    (component.graphRendered /\ component.graphData # Null)
        => (renders # <<>> /\ renders[Len(renders)] = component.graphData)

\* C29 as stated: at most one research request started by
\* handleResearchButtonClick is in flight at any time: a click while
\* isLoading is true starts no request, isLoading stays true from the start
\* of a request until that request settles, and it is false after the
\* request settles whether it succeeded or failed, under any interleaving
\* with wire-adapter deliveries.
C29_Original ==
    [][ /\ Len(requests') <= 1
        /\ Len(requests') > Len(requests) => ~component.isLoading
        /\ requests' # <<>> => component'.isLoading
        /\ Len(requests') < Len(requests) => ~component'.isLoading ]_vars

\* C30: for any interleaving of overlapping renderedCallback invocations
\* (each suspends while the D3 script load is awaited), renderGraph is
\* called at most once for each time graphRendered is false with graph data
\* present, and never before the D3 script has loaded successfully: a step
\* renders only with D3 loaded, graphRendered false and graph data there,
\* it renders that graph data once, and it leaves graphRendered true.
C30_RendersOncePerLoad ==
    [][ renders' # renders
          => /\ d3Loaded
             /\ ~component.graphRendered
             /\ component.graphData # Null
             /\ renders' = Append(renders, component.graphData)
             /\ component'.graphRendered ]_vars

\* Two invocations overlapped while D3 was not loaded; the script load of
\* one succeeded and the graph has been rendered once, and the other, whose
\* script load failed, has yet to resume.
C30_Witness ==
    /\ callbacks.failed = 1
    /\ d3Loaded
    /\ Len(renders) = 1
    /\ component.graphRendered
    /\ component.graphData = renders[1]

====
